---- MODULE Spec2Model ----
(***************************************************************************)
(* A model of rust-the-audio-book: the RIFF/WAVE codec and merger of       *)
(* src/src/audio.rs, the TTS response handling of src/src/tts.rs and the   *)
(* merge dispatcher of process_markdown_file in src/src/main.rs.           *)
(*                                                                         *)
(* Bytes are the integers 0..255 and a buffer (Vec<u8>, &[u8]) is a        *)
(* sequence of bytes.  A Rust range a..b (0-based, half open) is           *)
(* Slice(s, a, b).  TLC's integers are 32-bit signed, so a u32 is kept as  *)
(* two 16-bit limbs <<lo, hi>> and a (64-bit) usize that has to carry a    *)
(* value above 2^31 as four 16-bit limbs; a u16 is a plain integer.        *)
(* Buffer lengths and offsets inside a buffer are plain naturals.          *)
(***************************************************************************)
EXTENDS Integers, Sequences, FiniteSets, TLC

VARIABLES
    pc,        \* position of the run being modelled
    parts,     \* Vec<(Vec<u8>, String)> of process_markdown_file / &[&[u8]] of try_merge_wav
    call,      \* arguments of the pure function a codec specification applies
    ret,       \* its result (a Result record), or the dispatcher's merged buffer
    warnings,  \* lines written to stderr by the dispatcher, in order
    calls,     \* merge functions the dispatcher has invoked, in order
    file       \* the output file: None, or [ext, bytes]

vars == <<pc, parts, call, ret, warnings, calls, file>>

None == [kind |-> "None"]

\* ------------------------------------------------------------------------
\* Result<T>, and a panic (an arithmetic overflow under overflow-checks)
\* ------------------------------------------------------------------------
Ok(v) == [kind |-> "Ok", val |-> v]

Err(m) == [kind |-> "Err", msg |-> m]

Panic(m) == [kind |-> "Panic", msg |-> m]

IsOk(r) == r.kind = "Ok"

\* ------------------------------------------------------------------------
\* Fixed-width integers
\* ------------------------------------------------------------------------
Slice(s, a, b) == SubSeq(s, a + 1, b)

RECURSIVE Zeros(_)
Zeros(n) == IF n <= 0 THEN <<>> ELSE <<0>> \o Zeros(n - 1)

\* A small natural (below 2^31) as a value of k 16-bit limbs.
RECURSIVE Limbs(_, _)
Limbs(n, k) == IF k = 0 THEN <<>> ELSE <<n % 65536>> \o Limbs(n \div 65536, k - 1)

U32(n) == Limbs(n, 2)

Usize(n) == Limbs(n, 4)

\* Whether a limb value is below 2^31, so that AsNat may be taken of it.
IsSmall(x) == /\ x[2] < 32768
              /\ \A i \in 3..Len(x) : x[i] = 0

AsNat(x) == x[1] + 65536 * x[2]

\* Wrapping addition of two values of the same width: the sum modulo 2^(16k)
\* and the carry out (the overflow).
RECURSIVE AddLimbs(_, _, _)
AddLimbs(a, b, c) ==
    IF a = <<>> THEN [val |-> <<>>, carry |-> c]
    ELSE LET s == a[1] + b[1] + c
             r == AddLimbs(Tail(a), Tail(b), s \div 65536)
         IN [val |-> <<s % 65536>> \o r.val, carry |-> r.carry]

WrappingAdd(a, b) == AddLimbs(a, b, 0)

\* a < n for a u32 a and a small natural n
U32Lt(a, n) == IsSmall(a) /\ AsNat(a) < n

u16_from_le_bytes(b) == b[1] + 256 * b[2]

u16_to_le_bytes(v) == <<v % 256, v \div 256>>

u32_from_le_bytes(b) == <<b[1] + 256 * b[2], b[3] + 256 * b[4]>>

u32_to_le_bytes(v) == <<v[1] % 256, v[1] \div 256, v[2] % 256, v[2] \div 256>>

\* `x as u32` of a usize: the low 32 bits, silently.
usize_as_u32(x) == SubSeq(x, 1, 2)

\* ------------------------------------------------------------------------
\* Chunk tags
\* ------------------------------------------------------------------------
TagRIFF == <<82, 73, 70, 70>>

TagWAVE == <<87, 65, 86, 69>>

TagFmt == <<102, 109, 116, 32>>

TagData == <<100, 97, 116, 97>>

\* ------------------------------------------------------------------------
\* audio.rs: merge_concat, merge_mp3
\* ------------------------------------------------------------------------
\* merge_concat as it would be putting each part before the ones after it
\* last.
RECURSIVE merge_concat_reversed(_)
merge_concat_reversed(ps) ==
    IF ps = <<>> THEN <<>> ELSE merge_concat_reversed(Tail(ps)) \o Head(ps)

RECURSIVE merge_concat(_)
merge_concat(ps) == IF ps = <<>> THEN <<>> ELSE Head(ps) \o merge_concat(Tail(ps))

merge_mp3(ps) == merge_concat(ps)

\* ------------------------------------------------------------------------
\* audio.rs: parse_wav_fmt, parse_wav_data
\* ------------------------------------------------------------------------
WavFmt(af, ch, sr, br, ba, bps) ==
    [audio_format |-> af, num_channels |-> ch, sample_rate |-> sr,
     byte_rate |-> br, block_align |-> ba, bits_per_sample |-> bps]

ValidOuterHeader(bytes) ==
    ~ (\/ Len(bytes) < 12
       \/ Slice(bytes, 0, 4) # TagRIFF
       \/ Slice(bytes, 8, 12) # TagWAVE)

\* chunk_data_end > bytes.len(), where chunk_data_end = start + sz as usize.
\* A buffer of the model is shorter than 2^16 bytes, so a declared size with
\* a non-zero high limb always ends past it.
ChunkEndExceeds(start, sz, len) == sz[2] # 0 \/ start + sz[1] > len

\* DecodeFmt as it would be reading byte_rate and sample_rate from each
\* other's offsets.
DecodeFmt_rates_swapped(bytes, s) ==
    WavFmt(u16_from_le_bytes(Slice(bytes, s, s + 2)),
           u16_from_le_bytes(Slice(bytes, s + 2, s + 4)),
           u32_from_le_bytes(Slice(bytes, s + 8, s + 12)),
           u32_from_le_bytes(Slice(bytes, s + 4, s + 8)),
           u16_from_le_bytes(Slice(bytes, s + 12, s + 14)),
           u16_from_le_bytes(Slice(bytes, s + 14, s + 16)))

DecodeFmt(bytes, s) ==
    WavFmt(u16_from_le_bytes(Slice(bytes, s, s + 2)),
           u16_from_le_bytes(Slice(bytes, s + 2, s + 4)),
           u32_from_le_bytes(Slice(bytes, s + 4, s + 8)),
           u32_from_le_bytes(Slice(bytes, s + 8, s + 12)),
           u16_from_le_bytes(Slice(bytes, s + 12, s + 14)),
           u16_from_le_bytes(Slice(bytes, s + 14, s + 16)))

\* ScanFmt as it would be checking the size of a fmt chunk before its end.
RECURSIVE ScanFmt_size_first(_, _)
ScanFmt_size_first(bytes, off) ==
    IF ~ (off + 8 <= Len(bytes)) THEN Err("fmt chunk not found")
    ELSE LET id == Slice(bytes, off, off + 4)
             sz == u32_from_le_bytes(Slice(bytes, off + 4, off + 8))
             chunk_data_start == off + 8
         IN IF id = TagFmt /\ U32Lt(sz, 16) THEN Err("fmt chunk too small")
            ELSE IF ChunkEndExceeds(chunk_data_start, sz, Len(bytes))
            THEN Err("fmt chunk not found")
            ELSE IF id = TagFmt
            THEN Ok([fmt |-> DecodeFmt(bytes, chunk_data_start), fmt_size |-> sz])
            ELSE ScanFmt_size_first(bytes, chunk_data_start + sz[1] + (sz[1] % 2))

\* ScanFmt as it would be accepting a fmt chunk of 15 bytes.
RECURSIVE ScanFmt_size_below_15(_, _)
ScanFmt_size_below_15(bytes, off) ==
    IF ~ (off + 8 <= Len(bytes)) THEN Err("fmt chunk not found")
    ELSE LET id == Slice(bytes, off, off + 4)
             sz == u32_from_le_bytes(Slice(bytes, off + 4, off + 8))
             chunk_data_start == off + 8
         IN IF ChunkEndExceeds(chunk_data_start, sz, Len(bytes))
            THEN Err("fmt chunk not found")
            ELSE IF id = TagFmt
            THEN IF U32Lt(sz, 15) THEN Err("fmt chunk too small")
                 ELSE Ok([fmt |-> DecodeFmt(bytes, chunk_data_start), fmt_size |-> sz])
            ELSE ScanFmt_size_below_15(bytes, chunk_data_start + sz[1] + (sz[1] % 2))

\* ScanFmt as it would be without the word alignment of chunks.
RECURSIVE ScanFmt_no_pad(_, _)
ScanFmt_no_pad(bytes, off) ==
    IF ~ (off + 8 <= Len(bytes)) THEN Err("fmt chunk not found")
    ELSE LET id == Slice(bytes, off, off + 4)
             sz == u32_from_le_bytes(Slice(bytes, off + 4, off + 8))
             chunk_data_start == off + 8
         IN IF ChunkEndExceeds(chunk_data_start, sz, Len(bytes))
            THEN Err("fmt chunk not found")
            ELSE IF id = TagFmt
            THEN IF U32Lt(sz, 16) THEN Err("fmt chunk too small")
                 ELSE Ok([fmt |-> DecodeFmt(bytes, chunk_data_start), fmt_size |-> sz])
            ELSE ScanFmt_no_pad(bytes, chunk_data_start + sz[1])

RECURSIVE ScanFmt(_, _)
ScanFmt(bytes, off) ==
    IF ~ (off + 8 <= Len(bytes)) THEN Err("fmt chunk not found")
    ELSE LET id == Slice(bytes, off, off + 4)
             sz == u32_from_le_bytes(Slice(bytes, off + 4, off + 8))
             chunk_data_start == off + 8
         IN IF ChunkEndExceeds(chunk_data_start, sz, Len(bytes))
            THEN Err("fmt chunk not found")
            ELSE IF id = TagFmt
            THEN IF U32Lt(sz, 16) THEN Err("fmt chunk too small")
                 ELSE Ok([fmt |-> DecodeFmt(bytes, chunk_data_start), fmt_size |-> sz])
            ELSE ScanFmt(bytes, chunk_data_start + sz[1] + (sz[1] % 2))

parse_wav_fmt(bytes) ==
    IF ~ ValidOuterHeader(bytes) THEN Err("invalid WAV header")
    ELSE ScanFmt(bytes, 12)

\* ScanData as it would be without the word alignment of chunks.
RECURSIVE ScanData_no_pad(_, _)
ScanData_no_pad(bytes, off) ==
    IF ~ (off + 8 <= Len(bytes)) THEN Err("data chunk not found")
    ELSE LET id == Slice(bytes, off, off + 4)
             sz == u32_from_le_bytes(Slice(bytes, off + 4, off + 8))
             chunk_data_start == off + 8
         IN IF ChunkEndExceeds(chunk_data_start, sz, Len(bytes))
            THEN Err("data chunk not found")
            ELSE IF id = TagData
            THEN Ok(Slice(bytes, chunk_data_start, chunk_data_start + sz[1]))
            ELSE ScanData_no_pad(bytes, chunk_data_start + sz[1])

RECURSIVE ScanData(_, _)
ScanData(bytes, off) ==
    IF ~ (off + 8 <= Len(bytes)) THEN Err("data chunk not found")
    ELSE LET id == Slice(bytes, off, off + 4)
             sz == u32_from_le_bytes(Slice(bytes, off + 4, off + 8))
             chunk_data_start == off + 8
         IN IF ChunkEndExceeds(chunk_data_start, sz, Len(bytes))
            THEN Err("data chunk not found")
            ELSE IF id = TagData
            THEN Ok(Slice(bytes, chunk_data_start, chunk_data_start + sz[1]))
            ELSE ScanData(bytes, chunk_data_start + sz[1] + (sz[1] % 2))

parse_wav_data(bytes) ==
    IF ~ ValidOuterHeader(bytes) THEN Err("invalid WAV header")
    ELSE ScanData(bytes, 12)

\* ------------------------------------------------------------------------
\* audio.rs: write_wav_header
\* ------------------------------------------------------------------------
\* riff_chunk_size: u32 = 4 + (8 + fmt_size) + (8 + (data_len as u32)).
\* Each + is a u32 addition: with overflow checks (a debug build) an overflow
\* panics, without them (a release build) the sum wraps.
\* RiffChunkSize as it would be without the 4 bytes of the WAVE tag.
RiffChunkSize_no_wave(fmt_size, data_len) ==
    LET a == WrappingAdd(U32(8), fmt_size)
        b == WrappingAdd(U32(8), usize_as_u32(data_len))
        d == WrappingAdd(a.val, b.val)
    IN [val |-> d.val, overflow |-> a.carry + b.carry + d.carry > 0]

RiffChunkSize(fmt_size, data_len) ==
    LET a == WrappingAdd(U32(8), fmt_size)
        b == WrappingAdd(U32(8), usize_as_u32(data_len))
        c == WrappingAdd(U32(4), a.val)
        d == WrappingAdd(c.val, b.val)
    IN [val |-> d.val, overflow |-> a.carry + b.carry + c.carry + d.carry > 0]

\* write_wav_header as it would be writing the fmt size it is given.
write_wav_header_no_clamp(out, fmt, fmt_size0, data_len, overflow_checks) ==
    LET fmt_size == fmt_size0
        riff == RiffChunkSize(fmt_size, data_len)
    IN IF riff.overflow /\ overflow_checks THEN Panic("attempt to add with overflow")
       ELSE Ok(out \o TagRIFF \o u32_to_le_bytes(riff.val) \o TagWAVE
               \o TagFmt \o u32_to_le_bytes(fmt_size)
               \o u16_to_le_bytes(fmt.audio_format)
               \o u16_to_le_bytes(fmt.num_channels)
               \o u32_to_le_bytes(fmt.sample_rate)
               \o u32_to_le_bytes(fmt.byte_rate)
               \o u16_to_le_bytes(fmt.block_align)
               \o u16_to_le_bytes(fmt.bits_per_sample)
               \o (IF ~ U32Lt(fmt_size, 17) THEN Zeros(AsNat(fmt_size) - 16) ELSE <<>>)
               \o TagData \o u32_to_le_bytes(usize_as_u32(data_len)))

write_wav_header(out, fmt, fmt_size0, data_len, overflow_checks) ==
    LET fmt_size == IF U32Lt(fmt_size0, 16) THEN U32(16) ELSE fmt_size0
        riff == RiffChunkSize(fmt_size, data_len)
    IN IF riff.overflow /\ overflow_checks THEN Panic("attempt to add with overflow")
       ELSE Ok(out \o TagRIFF \o u32_to_le_bytes(riff.val) \o TagWAVE
               \o TagFmt \o u32_to_le_bytes(fmt_size)
               \o u16_to_le_bytes(fmt.audio_format)
               \o u16_to_le_bytes(fmt.num_channels)
               \o u32_to_le_bytes(fmt.sample_rate)
               \o u32_to_le_bytes(fmt.byte_rate)
               \o u16_to_le_bytes(fmt.block_align)
               \o u16_to_le_bytes(fmt.bits_per_sample)
               \o (IF ~ U32Lt(fmt_size, 17) THEN Zeros(AsNat(fmt_size) - 16) ELSE <<>>)
               \o TagData \o u32_to_le_bytes(usize_as_u32(data_len)))

\* ------------------------------------------------------------------------
\* audio.rs: try_merge_wav
\* ------------------------------------------------------------------------
\* MergeRest as it would be comparing the sample rates only.
RECURSIVE MergeRest_rate_only(_, _, _)
MergeRest_rate_only(rest, fmt, data_blobs) ==
    IF rest = <<>> THEN Ok(data_blobs)
    ELSE LET f == parse_wav_fmt(Head(rest))
         IN IF ~ IsOk(f) THEN f
            ELSE IF fmt.sample_rate # f.val.fmt.sample_rate
            THEN Err("WAV format mismatch across chunks")
            ELSE LET d == parse_wav_data(Head(rest))
                 IN IF ~ IsOk(d) THEN d
                    ELSE MergeRest_rate_only(Tail(rest), fmt, Append(data_blobs, d.val))

\* MergeRest as it would be inserting each blob at the front.
RECURSIVE MergeRest_push_front(_, _, _)
MergeRest_push_front(rest, fmt, data_blobs) ==
    IF rest = <<>> THEN Ok(data_blobs)
    ELSE LET f == parse_wav_fmt(Head(rest))
         IN IF ~ IsOk(f) THEN f
            ELSE IF fmt # f.val.fmt THEN Err("WAV format mismatch across chunks")
            ELSE LET d == parse_wav_data(Head(rest))
                 IN IF ~ IsOk(d) THEN d
                    ELSE MergeRest_push_front(Tail(rest), fmt, <<d.val>> \o data_blobs)

\* MergeRest as it would be parsing a fragment's data before comparing its
\* descriptor.
RECURSIVE MergeRest_data_first(_, _, _)
MergeRest_data_first(rest, fmt, data_blobs) ==
    IF rest = <<>> THEN Ok(data_blobs)
    ELSE LET f == parse_wav_fmt(Head(rest))
         IN IF ~ IsOk(f) THEN f
            ELSE LET d == parse_wav_data(Head(rest))
                 IN IF ~ IsOk(d) THEN d
                    ELSE IF fmt # f.val.fmt
                    THEN Err("WAV format mismatch across chunks")
                    ELSE MergeRest_data_first(Tail(rest), fmt, Append(data_blobs, d.val))

\* The loop over parts[1..]: Ok(data_blobs) or the first error.
RECURSIVE MergeRest(_, _, _)
MergeRest(rest, fmt, data_blobs) ==
    IF rest = <<>> THEN Ok(data_blobs)
    ELSE LET f == parse_wav_fmt(Head(rest))
         IN IF ~ IsOk(f) THEN f
            ELSE IF fmt # f.val.fmt THEN Err("WAV format mismatch across chunks")
            ELSE LET d == parse_wav_data(Head(rest))
                 IN IF ~ IsOk(d) THEN d
                    ELSE MergeRest(Tail(rest), fmt, Append(data_blobs, d.val))

\* try_merge_wav past its check for no parts.
MergeNonEmpty(ps, overflow_checks) ==
    LET f == parse_wav_fmt(ps[1])
    IN IF ~ IsOk(f) THEN f
       ELSE LET first_data == parse_wav_data(ps[1])
            IN IF ~ IsOk(first_data) THEN first_data
               ELSE LET blobs == MergeRest(Tail(ps), f.val.fmt, <<first_data.val>>)
                    IN IF ~ IsOk(blobs) THEN blobs
                       ELSE LET total_data_len == Len(merge_concat(blobs.val))
                                h == write_wav_header(<<>>, f.val.fmt, f.val.fmt_size,
                                                      Usize(total_data_len),
                                                      overflow_checks)
                            IN IF ~ IsOk(h) THEN h
                               ELSE Ok(h.val \o merge_concat(blobs.val))

\* try_merge_wav as it would be treating no parts as an error.
try_merge_wav_empty_is_error(ps, overflow_checks) ==
    IF ps = <<>> THEN Err("no WAV parts to merge")
    ELSE MergeNonEmpty(ps, overflow_checks)

try_merge_wav(ps, overflow_checks) ==
    IF ps = <<>> THEN Ok(<<>>)
    ELSE MergeNonEmpty(ps, overflow_checks)

\* ------------------------------------------------------------------------
\* Input fragments.  Each entry is built from its parts, so what it holds
\* (descriptor, declared fmt size, first data payload) is known without
\* parsing it: fmt is NoFmt and data is NoData where the file has no such chunk.
\* ------------------------------------------------------------------------
MaxParts == 3

MaxData == 2

TagLIST == <<76, 73, 83, 84>>

Chunk(tag, declared, body) == tag \o u32_to_le_bytes(U32(declared)) \o body

PaddedChunk(tag, body) == Chunk(tag, Len(body), body) \o Zeros(Len(body) % 2)

Riff(body) == TagRIFF \o u32_to_le_bytes(U32(4 + Len(body))) \o TagWAVE \o body

FmtFields(f) ==
    u16_to_le_bytes(f.audio_format) \o u16_to_le_bytes(f.num_channels)
    \o u32_to_le_bytes(f.sample_rate) \o u32_to_le_bytes(f.byte_rate)
    \o u16_to_le_bytes(f.block_align) \o u16_to_le_bytes(f.bits_per_sample)

\* The extension bytes of an extended fmt chunk are not zero.
FmtChunk(f, fs) == PaddedChunk(TagFmt, FmtFields(f) \o [i \in 1..(fs - 16) |-> 170 + i])

Payload(n, seed) == [i \in 1..n |-> seed + i]

BaseFmt == WavFmt(1, 1, U32(24000), U32(48000), 2, 16)

\* One descriptor per field of WavFmt, differing from BaseFmt in that field only.
OtherFmts ==
    { [BaseFmt EXCEPT !.audio_format = 3],
      [BaseFmt EXCEPT !.num_channels = 2],
      [BaseFmt EXCEPT !.sample_rate = U32(16000)],
      [BaseFmt EXCEPT !.byte_rate = U32(32000)],
      [BaseFmt EXCEPT !.block_align = 4],
      [BaseFmt EXCEPT !.bits_per_sample = 8] }

\* What a file without a fmt chunk (a data chunk) is built with.
NoFmt == WavFmt(-1, -1, <<-1, -1>>, <<-1, -1>>, -1, -1)

NoData == <<-1>>

Frag(bytes, fmt, fs, data) == [bytes |-> bytes, fmt |-> fmt, fs |-> fs, data |-> data]

PlainWav(f, fs, p) == Frag(Riff(FmtChunk(f, fs) \o PaddedChunk(TagData, p)), f, fs, p)

\* Well-formed files holding BaseFmt, in the layouts a RIFF writer may produce.
GoodFrags ==
    { PlainWav(BaseFmt, 16, Payload(n, 16 * n)) : n \in 0..MaxData }
    \cup { PlainWav(BaseFmt, fs, Payload(2, 64 + fs)) : fs \in {17, 18} }
    \cup { \* an odd-length LIST chunk and its pad byte before fmt
           Frag(Riff(PaddedChunk(TagLIST, <<73>>) \o FmtChunk(BaseFmt, 16)
                     \o PaddedChunk(TagData, <<91, 92, 93>>)),
                BaseFmt, 16, <<91, 92, 93>>),
           \* an odd data chunk, its pad byte, a second data chunk, a trailing
           \* chunk header cut short
           Frag(Riff(FmtChunk(BaseFmt, 16) \o PaddedChunk(TagLIST, <<73, 78>>)
                     \o PaddedChunk(TagData, <<101>>)
                     \o PaddedChunk(TagData, <<111, 112>>) \o TagLIST),
                BaseFmt, 16, <<101>>),
           \* data before fmt
           Frag(Riff(PaddedChunk(TagData, <<121, 122>>) \o FmtChunk(BaseFmt, 16)),
                BaseFmt, 16, <<121, 122>>) }

MismatchFrags ==
    { PlainWav(f, 16, <<131, 132>>) : f \in OtherFmts }
    \cup { \* another descriptor and no data chunk
           Frag(Riff(FmtChunk([BaseFmt EXCEPT !.num_channels = 2], 16)),
                [BaseFmt EXCEPT !.num_channels = 2], 16, NoData) }

\* Files on which a parse fails.
BadFrags ==
    { \* not RIFF
      Frag(<<82, 73, 70, 88>> \o SubSeq(PlainWav(BaseFmt, 16, <<141>>).bytes, 5, 45),
           NoFmt, 0, NoData),
      \* shorter than the outer header
      Frag(TagRIFF \o <<4, 0, 0, 0>>, NoFmt, 0, NoData),
      \* fmt chunk of 14 bytes
      Frag(Riff(Chunk(TagFmt, 14, SubSeq(FmtFields(BaseFmt), 1, 14))
                \o PaddedChunk(TagData, <<151, 152>>)),
           NoFmt, 14, <<151, 152>>),
      \* no fmt chunk
      Frag(Riff(PaddedChunk(TagData, <<161, 162>>)), NoFmt, 0, <<161, 162>>),
      \* no data chunk
      Frag(Riff(FmtChunk(BaseFmt, 16)), BaseFmt, 16, NoData),
      \* data chunk declaring more bytes than the file holds
      Frag(Riff(FmtChunk(BaseFmt, 16) \o Chunk(TagData, 8, <<171, 172>>)),
           BaseFmt, 16, NoData),
      \* a chunk declaring 2^32 - 1 bytes before fmt
      Frag(Riff(TagLIST \o <<255, 255, 255, 255>> \o FmtChunk(BaseFmt, 16)
                \o PaddedChunk(TagData, <<181>>)),
           NoFmt, 0, NoData) }

MergeInputs == GoodFrags \cup MismatchFrags \cup BadFrags

RECURSIVE BytesOf(_)
BytesOf(fs) == IF fs = <<>> THEN <<>> ELSE <<Head(fs).bytes>> \o BytesOf(Tail(fs))

\* ------------------------------------------------------------------------
\* SpecMerge: try_merge_wav applied to every sequence of at most MaxParts
\* input fragments.  call holds the fragments as built, parts their bytes.
\* ------------------------------------------------------------------------
InitMerge ==
    /\ pc = "collect"
    /\ parts = <<>>
    /\ call = <<>>
    /\ ret = None
    /\ warnings = <<>>
    /\ calls = <<>>
    /\ file = None

MergePush ==
    /\ pc = "collect"
    /\ Len(parts) < MaxParts
    /\ \E e \in MergeInputs :
         /\ parts' = Append(parts, e.bytes)
         /\ call' = Append(call, e)
    /\ UNCHANGED <<pc, ret, warnings, calls, file>>

MergeCall ==
    /\ pc = "collect"
    /\ \E overflow_checks \in BOOLEAN :
         ret' = try_merge_wav(parts, overflow_checks)
    /\ pc' = "returned"
    /\ UNCHANGED <<parts, call, warnings, calls, file>>

\* The merged file parsed, and merged once more on its own.
Remerge ==
    /\ pc = "returned"
    /\ parts # <<>>
    /\ IsOk(ret)
    /\ \E overflow_checks \in BOOLEAN :
         ret' = [merged |-> ret.val,
                 fmt |-> parse_wav_fmt(ret.val),
                 data |-> parse_wav_data(ret.val),
                 again |-> try_merge_wav(<<ret.val>>, overflow_checks)]
    /\ pc' = "remerged"
    /\ UNCHANGED <<parts, call, warnings, calls, file>>

NextMerge == MergePush \/ MergeCall \/ Remerge

SpecMerge == InitMerge /\ [][NextMerge]_vars

\* ------------------------------------------------------------------------
\* What the claims about try_merge_wav are stated in: the input fragments as
\* built (call), never as parsed.
\* ------------------------------------------------------------------------
\* A little-endian field of a buffer as a natural (for values below 2^31).
LeNat(b) == IF b = <<>> THEN 0
            ELSE b[1] + 256 * (IF Len(b) = 1 THEN 0
                               ELSE b[2] + 256 * (IF Len(b) = 2 THEN 0
                                                  ELSE b[3] + 256 * b[4]))

NatMax(a, b) == IF a >= b THEN a ELSE b

Parseable(e) == e.fmt # NoFmt /\ e.data # NoData

RECURSIVE ConcatData(_)
ConcatData(c) == IF c = <<>> THEN <<>> ELSE Head(c).data \o ConcatData(Tail(c))

RECURSIVE SumDataLen(_)
SumDataLen(c) == IF c = <<>> THEN 0 ELSE Len(Head(c).data) + SumDataLen(Tail(c))

MergeSucceeded == pc = "returned" /\ call # <<>> /\ IsOk(ret)

\* C1: whenever try_merge_wav succeeds on a non-empty sequence of fragments
\* with data-chunk lengths d1..dn and first declared fmt size fs, the data
\* length field of the output is d1+...+dn and its RIFF size field is
\* 4 + (8 + max(fs,16)) + (8 + (d1+...+dn)).
C1_MergedLengths ==
    MergeSucceeded =>
        /\ \A i \in 1..Len(call) : Parseable(call[i])
        /\ LET fs == NatMax(call[1].fs, 16)
               total == SumDataLen(call)
           IN /\ LeNat(Slice(ret.val, 24 + fs, 28 + fs)) = total
              /\ LeNat(Slice(ret.val, 4, 8)) = 4 + (8 + fs) + (8 + total)

C1_Witness ==
    /\ MergeSucceeded
    /\ Len(call) = 3
    /\ call[1].fs = 18
    /\ Len(call[2].data) = 3
    /\ Len(call[3].data) = 1

\* Some fragment after the first has a descriptor, and it differs from the
\* first fragment's descriptor.
Differing(c) ==
    {i \in 2..Len(c) : c[1].fmt # NoFmt /\ c[i].fmt # NoFmt /\ c[i].fmt # c[1].fmt}

FormatMismatch == Err("WAV format mismatch across chunks")

\* C2 as claimed: try_merge_wav fails with the format-mismatch error whenever
\* any fragment after the first has a descriptor differing from the first's.
C2_MismatchAlwaysReported ==
    (pc = "returned" /\ Differing(call) # {}) => ret = FormatMismatch

\* The least differing fragment is reached: every fragment before it has a
\* fmt chunk of at least 16 bytes and a data chunk.
ReachesMismatch(c) ==
    /\ Differing(c) # {}
    /\ LET i0 == CHOOSE i \in Differing(c) : \A j \in Differing(c) : i <= j
       IN \A j \in 1..(i0 - 1) : Parseable(c[j])

\* C2 as amended: whenever any fragment after the first has a descriptor
\* differing from the first's in at least one field, try_merge_wav returns an
\* error and no merged bytes; the error is the format-mismatch error when
\* every fragment before the first differing one has a fmt and a data chunk
\* (otherwise an earlier parse error is returned).
C2_MismatchRejected ==
    (pc = "returned" /\ Differing(call) # {}) =>
        /\ ret.kind = "Err"
        /\ ReachesMismatch(call) => ret = FormatMismatch

C2_Witness ==
    /\ pc = "returned"
    /\ Len(call) = 3
    /\ Differing(call) = {3}
    /\ call[3].fmt.block_align # call[1].fmt.block_align
    /\ ret = FormatMismatch

\* C3: when try_merge_wav succeeds on f1..fn, the output after its header of
\* 28 + fs bytes is data(f1) ++ ... ++ data(fn) in input order, and the header
\* carries the first fragment's descriptor and declared fmt size.
C3_PayloadsInOrder ==
    MergeSucceeded =>
        /\ \A i \in 1..Len(call) : Parseable(call[i])
        /\ LET fs == call[1].fs
           IN /\ Slice(ret.val, 28 + fs, Len(ret.val)) = ConcatData(call)
              /\ Slice(ret.val, 20, 36) = FmtFields(call[1].fmt)
              /\ LeNat(Slice(ret.val, 16, 20)) = fs
              /\ Slice(ret.val, 12, 16) = TagFmt
              /\ Slice(ret.val, 20 + fs, 24 + fs) = TagData

C3_Witness ==
    /\ MergeSucceeded
    /\ Len(call) = 3
    /\ call[1].fs = 17
    /\ call[1].data # call[2].data
    /\ call[2].data # call[3].data
    /\ call[3].data # <<>>
    /\ call[2].bytes[13] = 76

\* The header write_wav_header is to produce for (f, fs, n), byte by byte.
FreshHeader(f, fs, n) ==
    <<82, 73, 70, 70>> \o u32_to_le_bytes(U32(4 + (8 + fs) + (8 + n)))
    \o <<87, 65, 86, 69>> \o <<102, 109, 116, 32>> \o u32_to_le_bytes(U32(fs))
    \o FmtFields(f) \o [i \in 1..(fs - 16) |-> 0]
    \o <<100, 97, 116, 97>> \o u32_to_le_bytes(U32(n))

\* C5: for a single fragment f with a fmt and a data chunk, try_merge_wav([f])
\* is the fresh header for (format of f, declared fmt size of f, length of
\* f's data payload) followed by that payload, whatever else f contained.
C5_MergeIdentity ==
    (pc = "returned" /\ Len(call) = 1 /\ Parseable(call[1])) =>
        ret = Ok(FreshHeader(call[1].fmt, call[1].fs, Len(call[1].data))
                 \o call[1].data)

\* A single fragment holding more than a fmt and a data chunk.
C5_Witness ==
    /\ pc = "returned"
    /\ Len(call) = 1
    /\ Parseable(call[1])
    /\ IsOk(ret)
    /\ ret.val # call[1].bytes
    /\ Len(call[1].bytes) > 44 + Len(call[1].data) + 1

\* C6: try_merge_wav of the empty sequence succeeds with no bytes.
C6_EmptyInput == (pc = "returned" /\ parts = <<>>) => ret = Ok(<<>>)

C6_Witness == pc = "returned" /\ parts = <<>> /\ ret.kind = "Ok"

\* ------------------------------------------------------------------------
\* SpecCodec: write_wav_header(fmt, 16, N) followed by a payload of N bytes,
\* then parse_wav_fmt and parse_wav_data of the buffer.  call is the input
\* [fmt, payload], parts[1] the buffer, ret the result of the last step.
\* ------------------------------------------------------------------------
CodecFmts ==
    {BaseFmt} \cup OtherFmts
    \cup { WavFmt(3, 2, U32(44100), U32(352800), 8, 32),
           WavFmt(0, 0, U32(0), U32(0), 0, 0),
           WavFmt(65535, 65535, <<65535, 65535>>, <<65535, 65535>>, 65535, 65535),
           WavFmt(258, 772, <<1286, 1800>>, <<2314, 2828>>, 3342, 3856) }

\* 100 is the first byte of the tag "data".
PayloadBytes == {0, 100, 255}

RECURSIVE SeqsUpTo(_, _)
SeqsUpTo(S, n) ==
    IF n = 0 THEN {<<>>}
    ELSE LET shorter == SeqsUpTo(S, n - 1)
         IN shorter \cup {Append(q, x) : q \in shorter, x \in S}

CodecInputs == [fmt : CodecFmts, payload : SeqsUpTo(PayloadBytes, MaxData)]

InitCodec ==
    /\ pc = "start"
    /\ call \in CodecInputs
    /\ parts = <<>>
    /\ ret = None
    /\ warnings = <<>>
    /\ calls = <<>>
    /\ file = None

CodecWrite ==
    /\ pc = "start"
    /\ \E overflow_checks \in BOOLEAN :
         LET h == write_wav_header(<<>>, call.fmt, U32(16),
                                   Usize(Len(call.payload)), overflow_checks)
         IN /\ ret' = h
            /\ parts' = IF IsOk(h) THEN <<h.val \o call.payload>> ELSE parts
    /\ pc' = "written"
    /\ UNCHANGED <<call, warnings, calls, file>>

CodecParse ==
    /\ pc = "written"
    /\ IsOk(ret)
    /\ ret' = [fmt |-> parse_wav_fmt(parts[1]), data |-> parse_wav_data(parts[1])]
    /\ pc' = "parsed"
    /\ UNCHANGED <<call, parts, warnings, calls, file>>

NextCodec == CodecWrite \/ CodecParse

SpecCodec == InitCodec /\ [][NextCodec]_vars

\* C4: round trip.  parse_wav_fmt of write_wav_header(fmt, 16, N) followed by
\* a payload p of N bytes returns fmt with declared size 16, and parse_wav_data
\* of the same bytes returns p.
C4_RoundTrip ==
    /\ pc = "written" => IsOk(ret)
    /\ pc = "parsed" =>
         /\ ret.fmt = Ok([fmt |-> call.fmt, fmt_size |-> <<16, 0>>])
         /\ ret.data = Ok(call.payload)

C4_Witness ==
    /\ pc = "parsed"
    /\ call.payload = <<100, 255>>
    /\ call.fmt.sample_rate = <<1286, 1800>>
    /\ IsOk(ret.fmt)
    /\ IsOk(ret.data)

\* ------------------------------------------------------------------------
\* SpecHeader: write_wav_header applied to data lengths around 2^32, in a
\* build with and in a build without overflow checks.  call is the input
\* [out, fmt, fmt_size, data_len], ret the result (the buffer after the call).
\* ------------------------------------------------------------------------
\* usize values <<w0, w1, w2, w3>>: 0, 1, 2^16 - 37 .. 2^16 - 1 in the low
\* limb, below and above 2^32.
HeaderDataLens ==
    { <<w0, w1, w2, 0>> : w0 \in {0, 1, 65499, 65500, 65507, 65508, 65535},
                          w1 \in {0, 65535}, w2 \in {0, 1} }

\* out: the buffer as the caller passes it, empty or holding bytes already.
HeaderInputs ==
    [out : {<<>>, <<82, 73, 70>>}, fmt : {BaseFmt},
     fmt_size : {U32(0), U32(16), U32(17), U32(18)}, data_len : HeaderDataLens]

InitHeader ==
    /\ pc = "start"
    /\ call \in HeaderInputs
    /\ parts = <<>>
    /\ ret = None
    /\ warnings = <<>>
    /\ calls = <<>>
    /\ file = None

HeaderWrite ==
    /\ pc = "start"
    /\ \E overflow_checks \in BOOLEAN :
         ret' = write_wav_header(call.out, call.fmt, call.fmt_size, call.data_len,
                                 overflow_checks)
    /\ pc' = "written"
    /\ UNCHANGED <<call, parts, warnings, calls, file>>

NextHeader == HeaderWrite

SpecHeader == InitHeader /\ [][NextHeader]_vars

\* The exact value of 4 + (8 + max(fmt_size, 16)) + (8 + data_len), 64 bits wide.
ExactRiffSize(fmt_size, data_len) ==
    WrappingAdd(Usize(20 + NatMax(AsNat(fmt_size), 16)), data_len).val

ExceedsU32(x) == x[3] # 0 \/ x[4] # 0

\* C10: when data_len, or 4 + (8 + fmt_size) + (8 + data_len), exceeds the
\* unsigned 32-bit range, write_wav_header does not return a header.
C10_OverflowRejected ==
    (/\ pc = "written"
     /\ \/ ExceedsU32(call.data_len)
        \/ ExceedsU32(ExactRiffSize(call.fmt_size, call.data_len)))
    => ret.kind # "Ok"

\* ------------------------------------------------------------------------
\* Strings: a String or &str is the sequence of its characters.
\* ------------------------------------------------------------------------
UpperCase == <<"A", "B", "C", "D", "E", "F", "G", "H", "I", "J", "K", "L", "M", "N", "O", "P", "Q", "R", "S", "T", "U", "V", "W", "X", "Y", "Z">>

LowerCase == <<"a", "b", "c", "d", "e", "f", "g", "h", "i", "j", "k", "l", "m", "n", "o", "p", "q", "r", "s", "t", "u", "v", "w", "x", "y", "z">>

Digits == <<"0", "1", "2", "3", "4", "5", "6", "7", "8", "9">>

\* str::contains
Contains(h, n) == \E i \in 0..(Len(h) - Len(n)) : SubSeq(h, i + 1, i + Len(n)) = n

\* str::find: Some(byte offset of the first match) or None
Find(h, n) ==
    IF Contains(h, n)
    THEN [kind |-> "Some",
          val |-> CHOOSE i \in 0..(Len(h) - Len(n)) :
                     /\ SubSeq(h, i + 1, i + Len(n)) = n
                     /\ \A j \in 0..(i - 1) : SubSeq(h, j + 1, j + Len(n)) # n]
    ELSE None

to_ascii_lowercase(m) ==
    [i \in 1..Len(m) |->
        IF \E k \in 1..26 : UpperCase[k] = m[i]
        THEN LowerCase[CHOOSE k \in 1..26 : UpperCase[k] = m[i]]
        ELSE m[i]]

is_ascii_digit(ch) == \E k \in 1..10 : Digits[k] = ch

DigitValue(ch) == (CHOOSE k \in 1..10 : Digits[k] = ch) - 1

\* ------------------------------------------------------------------------
\* main.rs: guess_audio_extension
\* ------------------------------------------------------------------------
\* guess_audio_extension as it would be with the .wav rule before the .mp3 rule.
guess_audio_extension_wav_first(m) ==
    IF \/ Contains(m, <<"w", "a", "v">>)
       \/ Contains(m, <<"x", "-", "w", "a", "v">>)
       \/ Contains(m, <<"p", "c", "m">>)
       \/ Contains(m, <<"l", "i", "n", "e", "a", "r", "1", "6">>) THEN ".wav"
    ELSE IF Contains(m, <<"m", "p", "e", "g">>) \/ Contains(m, <<"m", "p", "3">>) THEN ".mp3"
    ELSE IF Contains(m, <<"o", "g", "g">>) THEN ".ogg"
    ELSE IF Contains(m, <<"f", "l", "a", "c">>) THEN ".flac"
    ELSE ".bin"

guess_audio_extension(m) ==
    IF Contains(m, <<"m", "p", "e", "g">>) \/ Contains(m, <<"m", "p", "3">>) THEN ".mp3"
    ELSE IF \/ Contains(m, <<"w", "a", "v">>)
            \/ Contains(m, <<"x", "-", "w", "a", "v">>)
            \/ Contains(m, <<"p", "c", "m">>)
            \/ Contains(m, <<"l", "i", "n", "e", "a", "r", "1", "6">>) THEN ".wav"
    ELSE IF Contains(m, <<"o", "g", "g">>) THEN ".ogg"
    ELSE IF Contains(m, <<"f", "l", "a", "c">>) THEN ".flac"
    ELSE ".bin"

\* ------------------------------------------------------------------------
\* audio.rs: is_raw_linear_pcm, parse_sample_rate, wrap_pcm_to_wav
\* ------------------------------------------------------------------------
is_raw_linear_pcm(mime) ==
    LET m == to_ascii_lowercase(mime)
    IN (Contains(m, <<"l", "i", "n", "e", "a", "r", "1", "6">>) \/ Contains(m, <<"p", "c", "m">>))
       /\ ~ Contains(m, <<"w", "a", "v">>)

\* The leading run of ASCII digits of tail.
RECURSIVE DigitRun(_)
DigitRun(tail) ==
    IF tail = <<>> \/ ~ is_ascii_digit(Head(tail)) THEN <<>>
    ELSE <<Head(tail)>> \o DigitRun(Tail(tail))

\* str::parse::<u32> of a string of ASCII digits: Err when it is empty or
\* the number exceeds u32::MAX.
RECURSIVE ParseDigits(_, _)
ParseDigits(num, acc) ==
    IF num = <<>> THEN Ok(acc)
    ELSE LET lo == acc[1] * 10 + DigitValue(Head(num))
             hi == acc[2] * 10 + (lo \div 65536)
         IN IF hi >= 65536 THEN Err("number too large to fit in target type")
            ELSE ParseDigits(Tail(num), <<lo % 65536, hi>>)

parse_u32(num) ==
    IF num = <<>> THEN Err("cannot parse integer from empty string")
    ELSE ParseDigits(num, <<0, 0>>)

SampleRateKeys == << <<"r", "a", "t", "e", "=">>,
                    <<"s", "a", "m", "p", "l", "e", "r", "a", "t", "e", "=">>,
                    <<"s", "a", "m", "p", "l", "e", "_", "r", "a", "t", "e", "=">> >>

RECURSIVE SampleRateFrom(_, _)
SampleRateFrom(lower, k) ==
    IF k > Len(SampleRateKeys) THEN None
    ELSE LET key == SampleRateKeys[k]
             pos == Find(lower, key)
         IN IF pos.kind = "None" THEN SampleRateFrom(lower, k + 1)
            ELSE LET tail == SubSeq(lower, pos.val + Len(key) + 1, Len(lower))
                     v == parse_u32(DigitRun(tail))
                 IN IF IsOk(v) THEN [kind |-> "Some", val |-> v.val]
                    ELSE SampleRateFrom(lower, k + 1)

parse_sample_rate(mime) == SampleRateFrom(to_ascii_lowercase(mime), 1)

\* a * k of limbs a by a byte k: the product modulo 2^(16n) and the carry out.
RECURSIVE MulLimbsByByte(_, _, _)
MulLimbsByByte(a, k, c) ==
    IF a = <<>> THEN [val |-> <<>>, carry |-> c]
    ELSE LET p == a[1] * k + c
             r == MulLimbsByByte(Tail(a), k, p \div 65536)
         IN [val |-> <<p % 65536>> \o r.val, carry |-> r.carry]

\* a * 256
RECURSIVE ShiftLimbs8(_, _)
ShiftLimbs8(a, c) ==
    IF a = <<>> THEN [val |-> <<>>, carry |-> c]
    ELSE LET r == ShiftLimbs8(Tail(a), a[1] \div 256)
         IN [val |-> <<(a[1] % 256) * 256 + c>> \o r.val, carry |-> r.carry]

\* a * k for limbs a and a 16-bit k: wrapped, and whether it overflowed.
WrappingMul(a, k) ==
    LET lo == MulLimbsByByte(a, k % 256, 0)
        hi == MulLimbsByByte(a, k \div 256, 0)
        sh == ShiftLimbs8(hi.val, 0)
        sum == WrappingAdd(lo.val, sh.val)
    IN [val |-> sum.val,
        overflow |-> lo.carry + hi.carry + sh.carry + sum.carry > 0]

\* wrap_pcm_to_wav as it would be returning the header alone.
wrap_pcm_to_wav_header_only(pcm, sample_rate, channels, bits_per_sample, overflow_checks) ==
    LET ba == channels * (bits_per_sample \div 8)
        block_align == ba % 65536
        br == WrappingMul(sample_rate, block_align)
    IN IF overflow_checks /\ (ba >= 65536 \/ br.overflow)
       THEN Panic("attempt to multiply with overflow")
       ELSE LET fmt == WavFmt(1, channels, sample_rate, br.val, block_align,
                              bits_per_sample)
            IN write_wav_header(<<>>, fmt, U32(16), Usize(Len(pcm)), overflow_checks)

wrap_pcm_to_wav(pcm, sample_rate, channels, bits_per_sample, overflow_checks) ==
    LET ba == channels * (bits_per_sample \div 8)
        block_align == ba % 65536
        br == WrappingMul(sample_rate, block_align)
    IN IF overflow_checks /\ (ba >= 65536 \/ br.overflow)
       THEN Panic("attempt to multiply with overflow")
       ELSE LET fmt == WavFmt(1, channels, sample_rate, br.val, block_align,
                              bits_per_sample)
                h == write_wav_header(<<>>, fmt, U32(16), Usize(Len(pcm)),
                                      overflow_checks)
            IN IF ~ IsOk(h) THEN h ELSE Ok(h.val \o pcm)

\* ------------------------------------------------------------------------
\* tts.rs: GeminiClient::tts_generate, from the response of
\* post_json_with_retries on.  A response is an error of the request, a body
\* without inline audio, inline data that is not base64, or [raw, mime]: the
\* decoded bytes and the MIME type of the inline data.
\* ------------------------------------------------------------------------
MimeAudioWav == <<"a", "u", "d", "i", "o", "/", "w", "a", "v">>

MimeOctetStream == <<"a", "p", "p", "l", "i", "c", "a", "t", "i", "o", "n", "/", "o", "c", "t", "e", "t", "-", "s", "t", "r", "e", "a", "m">>

tts_generate(resp, overflow_checks) ==
    IF resp.kind = "RequestError" THEN Err("request failed")
    ELSE IF resp.kind = "NoInlineData"
    THEN Err("TTS response parsed but no audio inline data found")
    ELSE IF resp.kind = "BadBase64" THEN Err("failed to decode base64 audio")
    ELSE IF is_raw_linear_pcm(resp.mime)
    THEN LET rate == parse_sample_rate(resp.mime)
             sr == IF rate.kind = "Some" THEN rate.val ELSE U32(24000)
             wav == wrap_pcm_to_wav(resp.raw, sr, 1, 16, overflow_checks)
         IN IF ~ IsOk(wav) THEN wav
            ELSE Ok([bytes |-> wav.val, mime |-> MimeAudioWav])
    ELSE Ok([bytes |-> resp.raw, mime |-> resp.mime])

\* ------------------------------------------------------------------------
\* main.rs: process_markdown_file, the merge of the parts
\* ------------------------------------------------------------------------
RECURSIVE PartBytes(_)
PartBytes(ps) == IF ps = <<>> THEN <<>> ELSE <<Head(ps).bytes>> \o PartBytes(Tail(ps))

\* Strategy as it would be without the branch for a single part.
Strategy_no_passthrough(n, mime) ==
    IF Contains(mime, <<"m", "p", "e", "g">>) \/ Contains(mime, <<"m", "p", "3">>) THEN "mp3"
    ELSE IF \/ Contains(mime, <<"w", "a", "v">>)
            \/ Contains(mime, <<"x", "-", "w", "a", "v">>)
            \/ Contains(mime, <<"p", "c", "m">>) THEN "wav"
    ELSE "raw"

\* The branch of the if / else if chain taken for n parts and the first MIME.
Strategy(n, mime) ==
    IF n = 1 THEN "passthrough"
    ELSE IF Contains(mime, <<"m", "p", "e", "g">>) \/ Contains(mime, <<"m", "p", "3">>) THEN "mp3"
    ELSE IF \/ Contains(mime, <<"w", "a", "v">>)
            \/ Contains(mime, <<"x", "-", "w", "a", "v">>)
            \/ Contains(mime, <<"p", "c", "m">>) THEN "wav"
    ELSE "raw"

Merged(kind, bytes, cs, ws, ps) ==
    [kind |-> kind, merged |-> bytes, calls |-> cs, warnings |-> ws, parts |-> ps]

\* MergeWavOrConcat as it would be propagating the error of try_merge_wav.
MergeWavOrConcat_propagates(ps, overflow_checks) ==
    LET r == try_merge_wav(PartBytes(ps), overflow_checks)
    IN IF IsOk(r) THEN Merged("Ok", r.val, <<"try_merge_wav">>, <<>>, ps)
       ELSE Merged(r.kind, <<>>, <<"try_merge_wav">>, <<>>, ps)

\* The WAV branch: try_merge_wav, and on Err a warning and merge_concat.
MergeWavOrConcat(ps, overflow_checks) ==
    LET r == try_merge_wav(PartBytes(ps), overflow_checks)
    IN IF IsOk(r) THEN Merged("Ok", r.val, <<"try_merge_wav">>, <<>>, ps)
       ELSE IF r.kind = "Panic" THEN Merged("Panic", <<>>, <<"try_merge_wav">>, <<>>, ps)
       ELSE Merged("Ok", merge_concat(PartBytes(ps)),
                   <<"try_merge_wav", "merge_concat">>,
                   <<[warn |-> "WAV merge failed", detail |-> r.msg]>>, ps)

\* The merged buffer with what computing it called and wrote to stderr, and
\* parts as the branch leaves it (parts.remove(0) empties a single part).
merge_parts(ps, mime, overflow_checks) ==
    LET strategy == Strategy(Len(ps), mime)
    IN IF strategy = "passthrough" THEN Merged("Ok", ps[1].bytes, <<>>, <<>>, Tail(ps))
       ELSE IF strategy = "mp3"
       THEN Merged("Ok", merge_mp3(PartBytes(ps)), <<"merge_mp3">>, <<>>, ps)
       ELSE IF strategy = "wav" THEN MergeWavOrConcat(ps, overflow_checks)
       ELSE Merged("Ok", merge_concat(PartBytes(ps)), <<"merge_concat">>,
                   <<[warn |-> "unsupported mime", detail |-> mime]>>, ps)

\* ------------------------------------------------------------------------
\* Spec: one run of process_markdown_file from its TTS loop on.  The document
\* has call.chunks text chunks (split_into_chunks_by_paragraph returns at
\* least one); call.fragments records, for each part pushed, the part with
\* what its bytes were built from.
\* ------------------------------------------------------------------------
MaxChunks == 3

WavA == PlainWav(BaseFmt, 16, <<11, 12>>)

WavB ==
    Frag(Riff(PaddedChunk(TagLIST, <<73>>) \o FmtChunk(BaseFmt, 18)
              \o PaddedChunk(TagData, <<21, 22, 23>>)),
         BaseFmt, 18, <<21, 22, 23>>)

WavOtherRate == PlainWav([BaseFmt EXCEPT !.sample_rate = U32(16000)], 16, <<31, 32>>)

WavNoData == Frag(Riff(FmtChunk(BaseFmt, 16)), BaseFmt, 16, NoData)

WavNoFmt == Frag(Riff(PaddedChunk(TagData, <<61, 62>>)), NoFmt, 0, <<61, 62>>)

WavSmallFmt ==
    Frag(Riff(Chunk(TagFmt, 14, SubSeq(FmtFields(BaseFmt), 1, 14))
              \o PaddedChunk(TagData, <<71, 72>>)),
         NoFmt, 14, <<71, 72>>)

NotWav == Frag(<<255, 251, 144, 100>>, NoFmt, 0, NoData)

Empty == Frag(<<>>, NoFmt, 0, NoData)

PcmFmt(rate) == WavFmt(1, 1, U32(rate), U32(2 * rate), 2, 16)

Audio(e, mime) ==
    [kind |-> "Audio", raw |-> e.bytes, mime |-> mime,
     fmt |-> e.fmt, fs |-> e.fs, data |-> e.data]

\* Headerless PCM: the part will be raw wrapped as a WAV at the given rate.
RawPcm(raw, mime, rate) ==
    [kind |-> "Audio", raw |-> raw, mime |-> mime,
     fmt |-> PcmFmt(rate), fs |-> 16, data |-> raw]

TtsResponses ==
    { [kind |-> "RequestError"], [kind |-> "NoInlineData"], [kind |-> "BadBase64"],
      Audio(NotWav, <<"a", "u", "d", "i", "o", "/", "m", "p", "e", "g">>),
      Audio(Frag(<<255, 251, 146>>, NoFmt, 0, NoData), <<"a", "u", "d", "i", "o", "/", "m", "p", "3">>),
      Audio(Empty, <<"a", "u", "d", "i", "o", "/", "m", "p", "e", "g">>),
      Audio(WavA, <<"a", "u", "d", "i", "o", "/", "w", "a", "v">>),
      Audio(WavB, <<"a", "u", "d", "i", "o", "/", "x", "-", "w", "a", "v">>),
      Audio(WavOtherRate, <<"a", "u", "d", "i", "o", "/", "w", "a", "v">>),
      Audio(WavNoData, <<"a", "u", "d", "i", "o", "/", "w", "a", "v">>),
      Audio(WavNoFmt, <<"a", "u", "d", "i", "o", "/", "w", "a", "v">>),
      Audio(WavSmallFmt, <<"a", "u", "d", "i", "o", "/", "w", "a", "v">>),
      Audio(NotWav, <<"a", "u", "d", "i", "o", "/", "w", "a", "v">>),
      Audio(WavA, <<"a", "u", "d", "i", "o", "/", "p", "c", "m", ";", "c", "o", "d", "e", "c", "=", "W", "A", "V">>),
      Audio(WavA, <<"a", "u", "d", "i", "o", "/", "l", "i", "n", "e", "a", "r", "1", "6", ";", "c", "o", "d", "e", "c", "=", "W", "A", "V">>),
      Audio(NotWav, <<"a", "u", "d", "i", "o", "/", "o", "g", "g">>),
      RawPcm(<<41, 0, 42, 0>>, <<"a", "u", "d", "i", "o", "/", "L", "1", "6", ";", "c", "o", "d", "e", "c", "=", "p", "c", "m", ";", "r", "a", "t", "e", "=", "2", "4", "0", "0", "0">>, 24000),
      RawPcm(<<51, 0>>, <<"a", "u", "d", "i", "o", "/", "L", "1", "6", ";", "c", "o", "d", "e", "c", "=", "p", "c", "m", ";", "r", "a", "t", "e", "=", "1", "6", "0", "0", "0">>, 16000),
      RawPcm(<<>>, <<"a", "u", "d", "i", "o", "/", "L", "I", "N", "E", "A", "R", "1", "6">>, 24000) }

Init ==
    /\ pc = "tts"
    /\ call \in [chunks : 1..MaxChunks, fragments : {<<>>}]
    /\ parts = <<>>
    /\ ret = None
    /\ warnings = <<>>
    /\ calls = <<>>
    /\ file = None

\* One turn of the loop over chunks: tts_generate(chunk), then parts.push,
\* or the error returned by `?`.
TtsPart ==
    /\ pc = "tts"
    /\ Len(parts) < call.chunks
    /\ \E resp \in TtsResponses, overflow_checks \in BOOLEAN :
         LET r == tts_generate(resp, overflow_checks)
         IN IF IsOk(r)
            THEN /\ parts' = Append(parts, r.val)
                 /\ call' = [call EXCEPT !.fragments =
                               Append(@, [bytes |-> r.val.bytes, mime |-> r.val.mime,
                                          fmt |-> resp.fmt, fs |-> resp.fs,
                                          data |-> resp.data])]
                 /\ pc' = IF Len(parts') = call.chunks THEN "merge" ELSE "tts"
                 /\ ret' = ret
            ELSE /\ pc' = IF r.kind = "Panic" THEN "panic" ELSE "tts_error"
                 /\ ret' = r
                 /\ UNCHANGED <<parts, call>>
    /\ UNCHANGED <<warnings, calls, file>>

\* The MIME type and extension of the output, and the merge of the parts.
Dispatch ==
    /\ pc = "merge"
    /\ \E overflow_checks \in BOOLEAN :
         LET mime == IF parts # <<>> THEN parts[1].mime ELSE MimeOctetStream
             ext == guess_audio_extension(mime)
             m == merge_parts(parts, mime, overflow_checks)
         IN /\ ret' = [ext |-> ext, merged |-> m.merged]
            /\ calls' = m.calls
            /\ warnings' = m.warnings
            /\ parts' = m.parts
            /\ pc' = IF m.kind = "Ok" THEN "write" ELSE "panic"
    /\ UNCHANGED <<call, file>>

\* fs::write(out_path, merged) succeeds ...
WriteFile ==
    /\ pc = "write"
    /\ file' = [ext |-> ret.ext, bytes |-> ret.merged]
    /\ pc' = "done"
    /\ UNCHANGED <<parts, call, ret, warnings, calls>>

\* ... or fails, and process_markdown_file returns the error.
WriteFails ==
    /\ pc = "write"
    /\ pc' = "write_error"
    /\ UNCHANGED <<parts, call, ret, warnings, calls, file>>

Next == TtsPart \/ Dispatch \/ WriteFile \/ WriteFails

Spec == Init /\ [][Next]_vars

\* ------------------------------------------------------------------------
\* Claims about the dispatcher, stated over the fragments as built
\* ------------------------------------------------------------------------
Fragments == call.fragments

AfterDispatch == pc \in {"write", "done", "write_error"}

RECURSIVE CatBytes(_)
CatBytes(fr) == IF fr = <<>> THEN <<>> ELSE Head(fr).bytes \o CatBytes(Tail(fr))

Mp3Like(m) == Contains(m, <<"m", "p", "e", "g">>) \/ Contains(m, <<"m", "p", "3">>)

\* "x-wav" contains "wav".
WavLike(m) == Contains(m, <<"w", "a", "v">>) \/ Contains(m, <<"p", "c", "m">>)

\* C7: the strategy is chosen from the number of fragments and the first
\* fragment's MIME type alone: one fragment, its bytes unchanged and no merge
\* function called; two or more and an MP3-like MIME (contains "mpeg" or
\* "mp3"), raw concatenation by merge_mp3; two or more and a WAV-like MIME
\* (contains "wav", "x-wav" or "pcm"), try_merge_wav; any other MIME, raw
\* concatenation and a warning.
C7_Strategy ==
    AfterDispatch =>
        LET n == Len(Fragments)
            m == Fragments[1].mime
        IN /\ n = 1 =>
                /\ ret.merged = Fragments[1].bytes
                /\ calls = <<>>
                /\ warnings = <<>>
           /\ (n >= 2 /\ Mp3Like(m)) =>
                /\ calls = <<"merge_mp3">>
                /\ ret.merged = CatBytes(Fragments)
                /\ warnings = <<>>
           /\ (n >= 2 /\ ~ Mp3Like(m) /\ WavLike(m)) =>
                /\ calls # <<>>
                /\ calls[1] = "try_merge_wav"
           /\ (n >= 2 /\ ~ Mp3Like(m) /\ ~ WavLike(m)) =>
                /\ calls = <<"merge_concat">>
                /\ ret.merged = CatBytes(Fragments)
                /\ Len(warnings) = 1
                /\ warnings[1].warn = "unsupported mime"

\* One WAV fragment passed through although later code would merge it.
C7_Witness ==
    /\ AfterDispatch
    /\ Len(Fragments) = 1
    /\ Fragments[1].mime = MimeAudioWav
    /\ Fragments[1].fmt = BaseFmt
    /\ calls = <<>>

\* The fragments try_merge_wav is to merge: each with a fmt and a data chunk,
\* all with the first one's descriptor.
Mergeable(fr) == \A i \in 1..Len(fr) : Parseable(fr[i]) /\ fr[i].fmt = fr[1].fmt

WavBranch ==
    /\ pc \notin {"tts", "merge", "tts_error"}
    /\ Len(Fragments) >= 2
    /\ ~ Mp3Like(Fragments[1].mime)
    /\ WavLike(Fragments[1].mime)

\* C8: in the WAV branch every failure of try_merge_wav is caught: a warning
\* is written, the output is the concatenation of all fragments' complete
\* bytes in order, and the run goes on to the file write.
C8_Fallback ==
    (WavBranch /\ ~ Mergeable(Fragments)) =>
        /\ AfterDispatch
        /\ calls = <<"try_merge_wav", "merge_concat">>
        /\ Len(warnings) = 1
        /\ warnings[1].warn = "WAV merge failed"
        /\ ret.merged = CatBytes(Fragments)
        /\ pc = "done" => file.bytes = CatBytes(Fragments)

C8_Witness ==
    /\ WavBranch
    /\ Len(Fragments) = 3
    /\ Parseable(Fragments[1])
    /\ Fragments[2].fmt = Fragments[1].fmt
    /\ Fragments[3].fmt = PcmFmt(16000)
    /\ pc = "done"
    /\ warnings # <<>>
    /\ warnings[1].detail = "WAV format mismatch across chunks"

\* C9: no run of process_markdown_file ends having written a zero-byte file.
C9_NoEmptyFile == pc = "done" => file.bytes # <<>>

\* ------------------------------------------------------------------------
\* try_merge_wav: the first error in fragment order
\* ------------------------------------------------------------------------
\* The steps try_merge_wav takes on fragment i of c, in the order it takes
\* them, and whether the step fails, from what the fragment was built with.
FmtStepFails(c, i) == c[i].fmt = NoFmt

EqualityStepFails(c, i) == i > 1 /\ c[i].fmt # NoFmt /\ c[i].fmt # c[1].fmt

DataStepFails(c, i) == c[i].data = NoData

Failing(c) ==
    {i \in 1..Len(c) : FmtStepFails(c, i) \/ EqualityStepFails(c, i) \/ DataStepFails(c, i)}

FirstFailing(c) == CHOOSE i \in Failing(c) : \A j \in Failing(c) : i <= j

\* The error of the first failing step of fragment i.
StepError(c, i) ==
    IF FmtStepFails(c, i) THEN parse_wav_fmt(c[i].bytes)
    ELSE IF EqualityStepFails(c, i) THEN FormatMismatch
    ELSE Err("data chunk not found")

\* C11: try_merge_wav is all-or-nothing and reports the first error in
\* fragment order: with the steps of each fragment ordered format parse,
\* equality check against the first, data parse, the result is the error of
\* the first failing step of the first failing fragment, whatever the later
\* fragments are, and it carries no merged bytes; with no failing step the
\* result is the merged file.
C11_FirstError ==
    pc = "returned" =>
        IF Failing(call) = {} THEN ret.kind = "Ok"
        ELSE /\ ret.kind = "Err"
             /\ ret = StepError(call, FirstFailing(call))

\* The second of three fragments has another descriptor and no data chunk,
\* the third has no fmt chunk.
C11_Witness ==
    /\ pc = "returned"
    /\ Len(call) = 3
    /\ FirstFailing(call) = 2
    /\ EqualityStepFails(call, 2) /\ DataStepFails(call, 2)
    /\ FmtStepFails(call, 3)
    /\ ret = FormatMismatch

\* ------------------------------------------------------------------------
\* SpecScan: parse_wav_fmt and parse_wav_data applied to files built chunk
\* by chunk.  call holds the chunks as built, parts the one file's bytes.
\* ------------------------------------------------------------------------
MaxScanChunks == 3

\* A chunk as built: its bytes (header, body, pad byte after an odd body that
\* is whole), and what it holds.  cut: the file ends inside the chunk.
ScanChunk(tag, declared, body, fmt) ==
    [bytes |-> tag \o u32_to_le_bytes(U32(declared)) \o body
               \o Zeros(IF Len(body) = declared THEN declared % 2 ELSE 0),
     tag |-> tag, declared |-> declared, body |-> body, fmt |-> fmt,
     cut |-> Len(body) < declared]

\* The first three bytes of a chunk header, where the file ends.
StubChunk ==
    [bytes |-> <<100, 97, 116>>, tag |-> <<>>, declared |-> 0, body |-> <<>>,
     fmt |-> NoFmt, cut |-> TRUE]

Fmt16k == [BaseFmt EXCEPT !.sample_rate = U32(16000), !.byte_rate = U32(32000)]

ScanChunks ==
    { ScanChunk(TagFmt, fs, FmtFields(BaseFmt) \o [i \in 1..(fs - 16) |-> 170 + i], BaseFmt)
        : fs \in {16, 17, 18} }
    \cup { ScanChunk(TagFmt, 16, FmtFields(Fmt16k), Fmt16k) }
    \cup { ScanChunk(TagFmt, fs, SubSeq(FmtFields(BaseFmt), 1, fs), NoFmt) : fs \in {14, 15} }
    \cup { ScanChunk(TagData, n, Payload(n, 32 * n), NoFmt) : n \in 0..3 }
    \cup { ScanChunk(TagLIST, n, Payload(n, 72), NoFmt) : n \in 1..2 }
    \cup { \* chunks declaring more bytes than the file holds
           ScanChunk(TagFmt, 20, FmtFields(BaseFmt), NoFmt),
           ScanChunk(TagFmt, 14, SubSeq(FmtFields(BaseFmt), 1, 10), NoFmt),
           ScanChunk(TagData, 8, <<201, 202>>, NoFmt),
           ScanChunk(TagLIST, 2147483647, <<73>>, NoFmt),
           StubChunk }

RECURSIVE ChunkBytes(_)
ChunkBytes(cs) == IF cs = <<>> THEN <<>> ELSE Head(cs).bytes \o ChunkBytes(Tail(cs))

InitScan ==
    /\ pc = "build"
    /\ parts = <<Riff(<<>>)>>
    /\ call = <<>>
    /\ ret = None
    /\ warnings = <<>>
    /\ calls = <<>>
    /\ file = None

\* The file grows by one chunk; nothing follows a chunk the file ends in.
ScanPush ==
    /\ pc = "build"
    /\ Len(call) < MaxScanChunks
    /\ IF call = <<>> THEN TRUE ELSE ~ call[Len(call)].cut
    /\ \E c \in ScanChunks :
         /\ call' = Append(call, c)
         /\ parts' = <<Riff(ChunkBytes(Append(call, c)))>>
    /\ UNCHANGED <<pc, ret, warnings, calls, file>>

ParseFmtCall ==
    /\ pc = "build"
    /\ ret' = parse_wav_fmt(parts[1])
    /\ pc' = "fmt_returned"
    /\ UNCHANGED <<parts, call, warnings, calls, file>>

ParseDataCall ==
    /\ pc = "build"
    /\ ret' = parse_wav_data(parts[1])
    /\ pc' = "data_returned"
    /\ UNCHANGED <<parts, call, warnings, calls, file>>

NextScan == ScanPush \/ ParseFmtCall \/ ParseDataCall

SpecScan == InitScan /\ [][NextScan]_vars

\* ------------------------------------------------------------------------
\* The chunk scanner of parse_wav_fmt and parse_wav_data
\* ------------------------------------------------------------------------
\* The file ends inside its last chunk, after that chunk's header.
LastCut(c) == c # <<>> /\ c[Len(c)].cut /\ Len(c[Len(c)].bytes) >= 8

\* The whole chunks of c with the given tag.
WholeAt(c, tag) == {j \in 1..Len(c) : c[j].tag = tag /\ ~ c[j].cut}

FirstAt(c, tag) == CHOOSE j \in WholeAt(c, tag) : \A k \in WholeAt(c, tag) : j <= k

\* C12: when the scanner reaches a chunk whose declared end exceeds the
\* buffer, the call fails with 'fmt chunk not found' (resp. 'data chunk not
\* found') exactly when no fmt (resp. data) chunk precedes that chunk, the
\* case of the cut chunk being itself a fmt or data chunk included.
C12_TruncatedChunk ==
    /\ (pc = "fmt_returned" /\ LastCut(call)) =>
          (ret = Err("fmt chunk not found") <=> WholeAt(call, TagFmt) = {})
    /\ (pc = "data_returned" /\ LastCut(call)) =>
          (ret = Err("data chunk not found") <=> WholeAt(call, TagData) = {})

\* The file ends inside a fmt chunk declaring 14 bytes, after a whole chunk.
C12_Witness ==
    /\ pc = "fmt_returned"
    /\ Len(call) = 2
    /\ LastCut(call)
    /\ call[2].tag = TagFmt /\ call[2].declared = 14
    /\ ret = Err("fmt chunk not found")

\* C13: when the first whole fmt chunk declares fewer than 16 bytes,
\* parse_wav_fmt fails with 'fmt chunk too small'; when it declares 16 or
\* more, the result is the descriptor held in its first 16 bytes and the
\* declared size unchanged; no descriptor is returned otherwise.
C13_FmtTooSmall ==
    pc = "fmt_returned" =>
        IF WholeAt(call, TagFmt) = {} THEN ret.kind = "Err"
        ELSE LET ch == call[FirstAt(call, TagFmt)]
             IN IF ch.declared < 16 THEN ret = Err("fmt chunk too small")
                ELSE ret = Ok([fmt |-> ch.fmt, fmt_size |-> U32(ch.declared)])

\* A fmt chunk of 15 bytes before a fmt chunk of 16.
C13_Witness ==
    /\ pc = "fmt_returned"
    /\ Len(call) = 3
    /\ call[2].tag = TagFmt /\ call[2].declared = 15
    /\ call[3].tag = TagFmt /\ call[3].declared = 16
    /\ FirstAt(call, TagFmt) = 2
    /\ ret = Err("fmt chunk too small")

OddBefore(c, j) == \E i \in 1..(j - 1) : c[i].declared % 2 = 1

\* C14: a fmt or data chunk that follows chunks of odd declared length, each
\* with its pad byte, is found, and the payload returned for a data chunk is
\* its declared bytes without the pad byte.
C14_WordAlignment ==
    /\ (pc = "data_returned" /\ WholeAt(call, TagData) # {}) =>
          LET ch == call[FirstAt(call, TagData)]
          IN ret = Ok(ch.body) /\ Len(ret.val) = ch.declared
    /\ (pc = "fmt_returned" /\ WholeAt(call, TagFmt) # {}) =>
          LET j == FirstAt(call, TagFmt)
          IN (OddBefore(call, j) /\ call[j].declared >= 16) =>
                (IsOk(ret) /\ ret.val.fmt = call[j].fmt)

\* An odd LIST chunk, a fmt chunk of 17 bytes, a data chunk of 3 bytes.
C14_Witness ==
    /\ pc = "data_returned"
    /\ Len(call) = 3
    /\ call[1].tag = TagLIST /\ call[1].declared = 1
    /\ call[2].tag = TagFmt /\ call[2].declared = 17
    /\ call[3].tag = TagData /\ call[3].declared = 3
    /\ ret = Ok(call[3].body)

\* ------------------------------------------------------------------------
\* write_wav_header: what it appends
\* ------------------------------------------------------------------------
\* C15: when write_wav_header returns, the buffer is the bytes it held before
\* followed by exactly 28 + max(fmt_size, 16) bytes: 'RIFF', the RIFF size,
\* 'WAVE', 'fmt ', the fmt size clamped to at least 16, the 16 format bytes,
\* zero bytes up to the clamped size, 'data' and the data length; no payload
\* byte follows.
C15_HeaderAppended ==
    (pc = "written" /\ call \in HeaderInputs /\ IsOk(ret)) =>
        LET o == Len(call.out)
            fs == NatMax(AsNat(call.fmt_size), 16)
            b == ret.val
        IN /\ Len(b) = o + 28 + fs
           /\ Slice(b, 0, o) = call.out
           /\ Slice(b, o, o + 4) = <<82, 73, 70, 70>>
           /\ Slice(b, o + 8, o + 12) = <<87, 65, 86, 69>>
           /\ Slice(b, o + 12, o + 16) = <<102, 109, 116, 32>>
           /\ LeNat(Slice(b, o + 16, o + 20)) = fs
           /\ Slice(b, o + 20, o + 36) = FmtFields(call.fmt)
           /\ \A i \in (o + 37)..(o + 20 + fs) : b[i] = 0
           /\ Slice(b, o + 20 + fs, o + 24 + fs) = <<100, 97, 116, 97>>
           /\ Slice(b, o + 24 + fs, o + 28 + fs)
                = u32_to_le_bytes(SubSeq(call.data_len, 1, 2))

\* A buffer holding bytes already, a fmt size below 16.
C15_Witness ==
    /\ pc = "written"
    /\ call \in HeaderInputs
    /\ IsOk(ret)
    /\ call.out # <<>>
    /\ call.fmt_size = U32(0)
    /\ Len(ret.val) = Len(call.out) + 44

\* ------------------------------------------------------------------------
\* SpecConcat: merge_concat and merge_mp3 applied to every sequence of at
\* most MaxConcatParts byte strings of at most MaxPartLen bytes, audio or not.
\* ------------------------------------------------------------------------
MaxConcatParts == 3

MaxPartLen == 2

ConcatBytes == {0, 255}

ConcatInputs == SeqsUpTo(ConcatBytes, MaxPartLen)

InitConcat ==
    /\ pc = "collect"
    /\ parts = <<>>
    /\ call = <<>>
    /\ ret = None
    /\ warnings = <<>>
    /\ calls = <<>>
    /\ file = None

ConcatPush ==
    /\ pc = "collect"
    /\ Len(parts) < MaxConcatParts
    /\ \E p \in ConcatInputs : parts' = Append(parts, p)
    /\ UNCHANGED <<pc, call, ret, warnings, calls, file>>

ConcatCall ==
    /\ pc = "collect"
    /\ ret' = merge_concat(parts)
    /\ pc' = "concat_returned"
    /\ UNCHANGED <<parts, call, warnings, calls, file>>

Mp3Call ==
    /\ pc = "collect"
    /\ ret' = merge_mp3(parts)
    /\ pc' = "mp3_returned"
    /\ UNCHANGED <<parts, call, warnings, calls, file>>

NextConcat == ConcatPush \/ ConcatCall \/ Mp3Call

SpecConcat == InitConcat /\ [][NextConcat]_vars

\* The number of bytes in the first n of the parts ps.
RECURSIVE LenBefore(_, _)
LenBefore(ps, n) == IF n = 0 THEN 0 ELSE LenBefore(ps, n - 1) + Len(ps[n])

\* C16: merge_concat and merge_mp3 return, for every sequence of fragments,
\* the empty one included, a byte sequence whose length is the sum of the
\* fragments' lengths and in which fragment i lies, byte for byte, after the
\* bytes of the fragments before it; there is no error outcome.
C16_Concatenation ==
    pc \in {"concat_returned", "mp3_returned"} =>
        /\ Len(ret) = LenBefore(parts, Len(parts))
        /\ \A i \in 1..Len(parts) :
             Slice(ret, LenBefore(parts, i - 1), LenBefore(parts, i)) = parts[i]

\* Three parts, the second empty, the first and third different.
C16_Witness ==
    /\ pc = "mp3_returned"
    /\ Len(parts) = 3
    /\ parts[2] = <<>>
    /\ Len(parts[1]) = 2 /\ Len(parts[3]) = 1
    /\ parts[1][1] # parts[3][1]
    /\ Len(ret) = 3

\* ------------------------------------------------------------------------
\* SpecWrap: wrap_pcm_to_wav applied to PCM buffers, sample rates (u32),
\* channel counts and sample widths (u16), in a build with and in a build
\* without overflow checks.  call is the input, ret the result.
\* ------------------------------------------------------------------------
WrapPcms == { <<>>, <<1>>, <<7, 0, 9>>, [i \in 1..4800 |-> i % 256] }

\* 0, 16000, 24000, 2^16, 2^31 - 1, 2^31, 2^32 - 1.
WrapRates ==
    { U32(0), U32(16000), U32(24000), <<0, 1>>, <<65535, 32767>>, <<0, 32768>>,
      <<65535, 65535>> }

WrapChannels == {0, 1, 2, 256, 65535}

WrapBits == {7, 8, 12, 16, 32, 65535}

WrapInputs ==
    [pcm : WrapPcms, sample_rate : WrapRates, channels : WrapChannels,
     bits_per_sample : WrapBits]

InitWrap ==
    /\ pc = "start"
    /\ call \in WrapInputs
    /\ parts = <<>>
    /\ ret = None
    /\ warnings = <<>>
    /\ calls = <<>>
    /\ file = None

WrapCall ==
    /\ pc = "start"
    /\ \E overflow_checks \in BOOLEAN :
         ret' = wrap_pcm_to_wav(call.pcm, call.sample_rate, call.channels,
                                call.bits_per_sample, overflow_checks)
    /\ pc' = "wrapped"
    /\ UNCHANGED <<call, parts, warnings, calls, file>>

NextWrap == WrapCall

SpecWrap == InitWrap /\ [][NextWrap]_vars

\* C17: the buffer wrap_pcm_to_wav returns for pcm is 44 + len(pcm) bytes,
\* its data-chunk length field is len(pcm), its fmt chunk has size 16 and
\* audio format 1, and its last len(pcm) bytes are pcm.
C17_WrapLayout ==
    (pc = "wrapped" /\ call \in WrapInputs /\ IsOk(ret)) =>
        LET n == Len(call.pcm)
        IN /\ Len(ret.val) = 44 + n
           /\ LeNat(Slice(ret.val, 40, 44)) = n
           /\ Slice(ret.val, 36, 40) = <<100, 97, 116, 97>>
           /\ Slice(ret.val, 12, 16) = <<102, 109, 116, 32>>
           /\ LeNat(Slice(ret.val, 16, 20)) = 16
           /\ LeNat(Slice(ret.val, 20, 22)) = 1
           /\ Slice(ret.val, 44, 44 + n) = call.pcm

\* 4800 bytes at 24000 Hz, 1 channel, 16 bits.
C17_Witness ==
    /\ pc = "wrapped"
    /\ call \in WrapInputs
    /\ Len(call.pcm) = 4800
    /\ call.sample_rate = U32(24000) /\ call.channels = 1 /\ call.bits_per_sample = 16
    /\ IsOk(ret)
    /\ Len(ret.val) = 4844
    /\ LeNat(Slice(ret.val, 40, 44)) = 4800

\* C18: the descriptor in the header wrap_pcm_to_wav returns has
\* block_align = channels * (bits_per_sample / 8) and
\* byte_rate = sample_rate * block_align as exact integers (the second one
\* compared 64 bits wide).
C18_ExactProducts ==
    (pc = "wrapped" /\ call \in WrapInputs /\ IsOk(ret)) =>
        LET ba == call.channels * (call.bits_per_sample \div 8)
            block_align == LeNat(Slice(ret.val, 32, 34))
            byte_rate == u32_from_le_bytes(Slice(ret.val, 28, 32))
        IN /\ block_align = ba
           /\ byte_rate \o <<0, 0>>
                = WrappingMul(call.sample_rate \o <<0, 0>>, block_align).val

\* ------------------------------------------------------------------------
\* The descriptor invariant on the parse path
\* ------------------------------------------------------------------------
\* byte_rate # sample_rate * block_align (compared 64 bits wide) or
\* block_align # channels * (bits_per_sample / 8).
ViolatesInvariant(f) ==
    \/ f.block_align # f.num_channels * (f.bits_per_sample \div 8)
    \/ f.byte_rate \o <<0, 0>> # WrappingMul(f.sample_rate \o <<0, 0>>, f.block_align).val

\* C19: try_merge_wav returns an error whenever a fragment's fmt chunk holds
\* a descriptor violating byte_rate = sample_rate * block_align or
\* block_align = channels * bits_per_sample / 8.
C19_ViolatorsRejected ==
    (/\ pc = "returned"
     /\ \E i \in 1..Len(call) : call[i].fmt # NoFmt /\ ViolatesInvariant(call[i].fmt))
    => ret.kind = "Err"

\* ------------------------------------------------------------------------
\* SpecExt: guess_audio_extension applied to MIME strings made of at most
\* MaxTokens tokens.  call holds the tokens, parts[1] the string.  No token
\* ends with the beginning of a keyword that another token completes.
\* ------------------------------------------------------------------------
MaxTokens == 2

MimeTokens ==
    { <<"m", "p", "e", "g">>,
      <<"m", "p", "3">>,
      <<"w", "a", "v">>,
      <<"x", "-", "w", "a", "v">>,
      <<"p", "c", "m">>,
      <<"l", "i", "n", "e", "a", "r", "1", "6">>,
      <<"o", "g", "g">>,
      <<"f", "l", "a", "c">>,
      <<"M", "P", "E", "G">>,
      <<"a", "u", "d", "i", "o", "/">>,
      <<"t", "e", "x", "t", "/", "p", "l", "a", "i", "n">>,
      <<";", "c", "o", "d", "e", "c", "=">> }

RECURSIVE MimeOf(_)
MimeOf(ts) == IF ts = <<>> THEN <<>> ELSE Head(ts) \o MimeOf(Tail(ts))

InitExt ==
    /\ pc = "build"
    /\ parts = <<<<>>>>
    /\ call = <<>>
    /\ ret = None
    /\ warnings = <<>>
    /\ calls = <<>>
    /\ file = None

MimePush ==
    /\ pc = "build"
    /\ Len(call) < MaxTokens
    /\ \E t \in MimeTokens :
         /\ call' = Append(call, t)
         /\ parts' = <<MimeOf(Append(call, t))>>
    /\ UNCHANGED <<pc, ret, warnings, calls, file>>

GuessCall ==
    /\ pc = "build"
    /\ ret' = guess_audio_extension(parts[1])
    /\ pc' = "guessed"
    /\ UNCHANGED <<parts, call, warnings, calls, file>>

NextExt == MimePush \/ GuessCall

SpecExt == InitExt /\ [][NextExt]_vars

HasToken(ts, t) == \E i \in 1..Len(ts) : ts[i] = t

\* C20: guess_audio_extension returns .mp3 for a MIME holding 'mpeg' or
\* 'mp3'; else .wav for one holding 'wav', 'x-wav', 'pcm' or 'linear16';
\* else .ogg for 'ogg'; else .flac for 'flac'; else .bin.  The match is
\* case-sensitive, and a MIME matching several rules gets the earliest.
C20_ExtensionRules ==
    pc = "guessed" =>
        ret = IF HasToken(call, <<"m", "p", "e", "g">>) \/ HasToken(call, <<"m", "p", "3">>) THEN ".mp3"
              ELSE IF \/ HasToken(call, <<"w", "a", "v">>)
                      \/ HasToken(call, <<"x", "-", "w", "a", "v">>)
                      \/ HasToken(call, <<"p", "c", "m">>)
                      \/ HasToken(call, <<"l", "i", "n", "e", "a", "r", "1", "6">>) THEN ".wav"
              ELSE IF HasToken(call, <<"o", "g", "g">>) THEN ".ogg"
              ELSE IF HasToken(call, <<"f", "l", "a", "c">>) THEN ".flac"
              ELSE ".bin"

\* 'wav' before 'mp3' in one MIME string.
C20_Witness ==
    /\ pc = "guessed"
    /\ call = <<<<"w", "a", "v">>, <<"m", "p", "3">>>>
    /\ ret = ".mp3"

\* ------------------------------------------------------------------------
\* SpecRate: the sample rate tts_generate wraps headerless PCM at, for MIME
\* strings "audio/pcm" followed by at most MaxParams parameters ";name=value".
\* call holds the parameters as built (num: the number the value starts
\* with, -1 where it starts with no digit), parts[1] the string.
\* ------------------------------------------------------------------------
MaxParams == 2

ParamNames ==
    { <<"r", "a", "t", "e">>,
      <<"s", "a", "m", "p", "l", "e", "r", "a", "t", "e">>,
      <<"s", "a", "m", "p", "l", "e", "_", "r", "a", "t", "e">>,
      <<"S", "a", "m", "p", "l", "e", "_", "R", "a", "t", "e">>,
      <<"b", "i", "t", "r", "a", "t", "e">>,
      <<"c", "o", "d", "e", "c">> }

ParamValues ==
    { [text |-> <<"1", "6", "0", "0", "0">>, num |-> 16000],
      [text |-> <<"1", "2", "8">>, num |-> 128],
      [text |-> <<"8", "0", "0", "0", "x">>, num |-> 8000],
      [text |-> <<"p", "c", "m">>, num |-> -1],
      [text |-> <<>>, num |-> -1] }

MimeParams == [name : ParamNames, value : ParamValues]

RECURSIVE ParamString(_)
ParamString(ps) ==
    IF ps = <<>> THEN <<>>
    ELSE <<";">> \o Head(ps).name \o <<"=">> \o Head(ps).value.text
         \o ParamString(Tail(ps))

PcmMime(ps) == <<"a", "u", "d", "i", "o", "/", "p", "c", "m">> \o ParamString(ps)

InitRate ==
    /\ pc = "build"
    /\ parts = <<PcmMime(<<>>)>>
    /\ call = <<>>
    /\ ret = None
    /\ warnings = <<>>
    /\ calls = <<>>
    /\ file = None

ParamPush ==
    /\ pc = "build"
    /\ Len(call) < MaxParams
    /\ \E p \in MimeParams :
         /\ call' = Append(call, p)
         /\ parts' = <<PcmMime(Append(call, p))>>
    /\ UNCHANGED <<pc, ret, warnings, calls, file>>

\* let sr = parse_sample_rate(&mime).unwrap_or(24000)
RateCall ==
    /\ pc = "build"
    /\ is_raw_linear_pcm(parts[1])
    /\ LET rate == parse_sample_rate(parts[1])
       IN ret' = IF rate.kind = "Some" THEN rate.val ELSE U32(24000)
    /\ pc' = "rated"
    /\ UNCHANGED <<parts, call, warnings, calls, file>>

NextRate == ParamPush \/ RateCall

SpecRate == InitRate /\ [][NextRate]_vars

\* The parameters named rate, samplerate or sample_rate, in any case, whose
\* value starts with a digit.
RateParams(ps) ==
    {i \in 1..Len(ps) :
        /\ to_ascii_lowercase(ps[i].name) \in {<<"r", "a", "t", "e">>, <<"s", "a", "m", "p", "l", "e", "r", "a", "t", "e">>, <<"s", "a", "m", "p", "l", "e", "_", "r", "a", "t", "e">>}
        /\ ps[i].value.num >= 0}

\* C21: the sample rate used for wrapping is the number formed by the first
\* run of digits directly after a rate=, samplerate= or sample_rate= key
\* (in any case), and 24000 when no such key with digits is present; a
\* parameter whose name merely ends in 'rate' (bitrate) is not such a key.
C21_SampleRateKeys ==
    pc = "rated" =>
        IF RateParams(call) = {} THEN ret = U32(24000)
        ELSE LET i == CHOOSE i \in RateParams(call) : \A j \in RateParams(call) : i <= j
             IN ret = U32(call[i].value.num)

\* ------------------------------------------------------------------------
\* audio.rs: estimate_wav_silence_ratio
\* ------------------------------------------------------------------------
RECURSIVE Gcd(_, _)
Gcd(a, b) == IF b = 0 THEN a ELSE Gcd(b, a % b)

\* (silent as f32) / (total as f32), total > 0: the quotient as a fraction in
\* lowest terms, which for counts this small determines the f32 value.
F32Div(silent, total) ==
    [num |-> silent \div Gcd(silent, total), den |-> total \div Gcd(silent, total)]

\* The literal 1.0.
F32One == [num |-> 1, den |-> 1]

i16_from_le_bytes(b) ==
    LET u == b[1] + 256 * b[2] IN IF u >= 32768 THEN u - 65536 ELSE u

i32_abs(s) == IF s < 0 THEN -s ELSE s

\* (32767f32 * 0.01) as i32: the product 327.66998 truncated.
Pcm16Threshold == (32767 * 1) \div 100

\* The bits of 0.005f32, 0x3BA3D70A.
Float32ThresholdBits == 1000593162

\* v.abs() <= threshold for the f32 with the given little-endian bytes.  With
\* the sign bit cleared, the bit patterns of the non-NaN values are ordered
\* as the values are, and those of the NaNs (for which <= is false) are
\* above that of every number.
F32AbsLeThreshold(b) ==
    b[1] + 256 * b[2] + 65536 * b[3] + 16777216 * (b[4] % 128) <= Float32ThresholdBits

\* Pcm16Loop as it would be with s.abs() < threshold.
RECURSIVE Pcm16Loop_strict(_, _, _, _)
Pcm16Loop_strict(data, i, silent, total) ==
    IF ~ (i + 1 < Len(data)) THEN F32Div(silent, total)
    ELSE LET s == i16_from_le_bytes(Slice(data, i, i + 2))
         IN Pcm16Loop_strict(data, i + 2,
                             IF i32_abs(s) < Pcm16Threshold THEN silent + 1 ELSE silent,
                             total + 1)

RECURSIVE Pcm16Loop(_, _, _, _)
Pcm16Loop(data, i, silent, total) ==
    IF ~ (i + 1 < Len(data)) THEN F32Div(silent, total)
    ELSE LET s == i16_from_le_bytes(Slice(data, i, i + 2))
         IN Pcm16Loop(data, i + 2,
                      IF i32_abs(s) <= Pcm16Threshold THEN silent + 1 ELSE silent,
                      total + 1)

RECURSIVE Float32Loop(_, _, _, _)
Float32Loop(data, i, silent, total) ==
    IF ~ (i + 3 < Len(data)) THEN F32Div(silent, total)
    ELSE Float32Loop(data, i + 4,
                     IF F32AbsLeThreshold(Slice(data, i, i + 4)) THEN silent + 1 ELSE silent,
                     total + 1)

ZeroIsh(frame) == Cardinality({k \in 1..Len(frame) : frame[k] = 0 \/ frame[k] = 128})

\* FallbackLoop as it would be counting the bytes 0x00 only.
RECURSIVE FallbackLoop_zero_only(_, _, _, _, _)
FallbackLoop_zero_only(data, ba, i, silent, total) ==
    IF ~ (i + ba <= Len(data))
    THEN IF total = 0 THEN F32One ELSE F32Div(silent, total)
    ELSE LET frame == Slice(data, i, i + ba)
             zeros == Cardinality({k \in 1..Len(frame) : frame[k] = 0})
         IN FallbackLoop_zero_only(data, ba, i + ba,
                                   IF zeros * 2 >= Len(frame) THEN silent + 1 ELSE silent,
                                   total + 1)

\* FallbackLoop as it would be taking the bytes after the last whole frame
\* as one more frame.
RECURSIVE FallbackLoop_partial_frame(_, _, _, _, _)
FallbackLoop_partial_frame(data, ba, i, silent, total) ==
    IF ~ (i < Len(data))
    THEN IF total = 0 THEN F32One ELSE F32Div(silent, total)
    ELSE LET frame == Slice(data, i, IF i + ba <= Len(data) THEN i + ba ELSE Len(data))
             zeros == ZeroIsh(frame)
         IN FallbackLoop_partial_frame(data, ba, i + ba,
                                       IF zeros * 2 >= Len(frame) THEN silent + 1 ELSE silent,
                                       total + 1)

RECURSIVE FallbackLoop(_, _, _, _, _)
FallbackLoop(data, ba, i, silent, total) ==
    IF ~ (i + ba <= Len(data))
    THEN IF total = 0 THEN F32One ELSE F32Div(silent, total)
    ELSE LET frame == Slice(data, i, i + ba)
             zeros == ZeroIsh(frame)
         IN FallbackLoop(data, ba, i + ba,
                         IF zeros * 2 >= Len(frame) THEN silent + 1 ELSE silent,
                         total + 1)

estimate_wav_silence_ratio(bytes) ==
    LET f == parse_wav_fmt(bytes)
    IN IF ~ IsOk(f) THEN f
       ELSE LET d == parse_wav_data(bytes)
            IN IF ~ IsOk(d) THEN d
               ELSE LET fmt == f.val.fmt
                        data == d.val
                    IN IF data = <<>> THEN Ok(F32One)
                       ELSE IF fmt.audio_format = 1 /\ fmt.bits_per_sample = 16
                       THEN IF Len(data) \div 2 = 0 THEN Ok(F32One)
                            ELSE Ok(Pcm16Loop(data, 0, 0, 0))
                       ELSE IF fmt.audio_format = 3 /\ fmt.bits_per_sample = 32
                       THEN IF Len(data) \div 4 = 0 THEN Ok(F32One)
                            ELSE Ok(Float32Loop(data, 0, 0, 0))
                       ELSE Ok(FallbackLoop(data, NatMax(fmt.block_align, 1), 0, 0, 0))

\* ------------------------------------------------------------------------
\* SpecSilence: estimate_wav_silence_ratio applied to WAV files holding 16-bit
\* PCM samples, 32-bit float samples, or bytes under another format.  call is
\* the file as built: its descriptor, its whole units (with the sample each
\* one encodes), the bytes after them, and the data payload.
\* ------------------------------------------------------------------------
MaxUnits == 2

MaxFrameData == 4

\* A 16-bit sample of value v.
Sample16(v) == [bytes |-> u16_to_le_bytes((v + 65536) % 65536), silent |-> i32_abs(v) <= 327]

Samples16 == { Sample16(v) : v \in {0, 327, 328, -327, -328, -1, 32512, -32768} }

\* 32-bit floats: 0.0, -0.0, the least subnormal, 0.005, -0.005, the float
\* after 0.005, 1.0, infinity, a NaN.
Samples32 ==
    { [bytes |-> <<0, 0, 0, 0>>, silent |-> TRUE],
      [bytes |-> <<0, 0, 0, 128>>, silent |-> TRUE],
      [bytes |-> <<1, 0, 0, 0>>, silent |-> TRUE],
      [bytes |-> <<10, 215, 163, 59>>, silent |-> TRUE],
      [bytes |-> <<10, 215, 163, 187>>, silent |-> TRUE],
      [bytes |-> <<11, 215, 163, 59>>, silent |-> FALSE],
      [bytes |-> <<0, 0, 128, 63>>, silent |-> FALSE],
      [bytes |-> <<0, 0, 128, 127>>, silent |-> FALSE],
      [bytes |-> <<0, 0, 192, 127>>, silent |-> FALSE] }

RECURSIVE UnitBytes(_)
UnitBytes(us) == IF us = <<>> THEN <<>> ELSE Head(us).bytes \o UnitBytes(Tail(us))

Pcm16Fmts == { BaseFmt, WavFmt(1, 2, U32(24000), U32(96000), 4, 16) }

Float32Fmts == { WavFmt(3, 1, U32(24000), U32(96000), 4, 32) }

OtherFormatFmts ==
    { WavFmt(1, 1, U32(8000), U32(8000), ba, 8) : ba \in 0..3 }
    \cup { WavFmt(3, 1, U32(8000), U32(16000), 2, 16),
           WavFmt(1, 1, U32(8000), U32(24000), 3, 32),
           WavFmt(0, 0, U32(0), U32(0), 0, 0) }

SilenceInput(fmt, units, tail) ==
    [fmt |-> fmt, units |-> units, tail |-> tail, data |-> UnitBytes(units) \o tail]

SilenceInputs ==
    { SilenceInput(f, us, t) :
        f \in Pcm16Fmts, us \in SeqsUpTo(Samples16, MaxUnits), t \in {<<>>, <<0>>} }
    \cup { SilenceInput(f, us, t) :
        f \in Float32Fmts, us \in SeqsUpTo(Samples32, MaxUnits),
        t \in {<<>>, <<0>>, <<0, 0, 0>>} }
    \cup { SilenceInput(f, <<>>, d) :
        f \in OtherFormatFmts, d \in SeqsUpTo({0, 1, 128}, MaxFrameData) }

InitSilence ==
    /\ pc = "start"
    /\ call \in SilenceInputs
    /\ parts = <<PlainWav(call.fmt, 16, call.data).bytes>>
    /\ ret = None
    /\ warnings = <<>>
    /\ calls = <<>>
    /\ file = None

SilenceCall ==
    /\ pc = "start"
    /\ ret' = estimate_wav_silence_ratio(parts[1])
    /\ pc' = "estimated"
    /\ UNCHANGED <<call, parts, warnings, calls, file>>

NextSilence == SilenceCall

SpecSilence == InitSilence /\ [][NextSilence]_vars

\* ------------------------------------------------------------------------
\* estimate_wav_silence_ratio: what the ratio counts
\* ------------------------------------------------------------------------
Estimated == pc = "estimated" /\ call \in SilenceInputs

IsPcm16(f) == f.audio_format = 1 /\ f.bits_per_sample = 16

IsFloat32(f) == f.audio_format = 3 /\ f.bits_per_sample = 32

SilentUnits(us) == Cardinality({k \in 1..Len(us) : us[k].silent})

\* The whole frames of w bytes of data at least half of whose bytes are 0x00
\* or 0x80.
SilentFrames(data, w) ==
    Cardinality({k \in 0..((Len(data) \div w) - 1) :
        2 * Cardinality({j \in 1..w : data[k * w + j] \in {0, 128}}) >= w})

\* r is the quotient silent / total, total > 0.
IsRatio(r, silent, total) ==
    r.kind = "Ok" /\ r.val.den > 0 /\ r.val.num * total = silent * r.val.den

\* C22: for audio format 1, 16 bits and a payload of at least 2 bytes, the
\* result is silent / total with total = floor(len / 2) two-byte units,
\* whatever the channel count, and silent the units of |sample| <= 327: so
\* silent <= total, 1.0 for samples all zero, 0.0 for samples all 0x7F00.
C22_Pcm16Ratio ==
    (Estimated /\ IsPcm16(call.fmt) /\ Len(call.data) >= 2) =>
        LET total == Len(call.data) \div 2
            silent == SilentUnits(call.units)
        IN /\ total = Len(call.units)
           /\ silent <= total
           /\ IsRatio(ret, silent, total)
           /\ ret.val.num <= ret.val.den

\* Two channels, the samples 0x7F00 and 0x7F00: ratio 0.0.
C22_Witness ==
    /\ Estimated
    /\ IsPcm16(call.fmt) /\ call.fmt.num_channels = 2
    /\ call.data = <<0, 127, 0, 127>>
    /\ ret = Ok([num |-> 0, den |-> 1])

\* C23: for a format other than (1, 16) and (3, 32) and data holding at least
\* one whole frame of max(block_align, 1) bytes, the result is the number of
\* whole frames at least half of whose bytes are 0x00 or 0x80 over the
\* number of whole frames.
C23_FallbackRatio ==
    (Estimated /\ ~ IsPcm16(call.fmt) /\ ~ IsFloat32(call.fmt)) =>
        LET w == NatMax(call.fmt.block_align, 1)
            total == Len(call.data) \div w
        IN total > 0 => IsRatio(ret, SilentFrames(call.data, w), total)

\* Frames of 2 bytes: 0x80 0x01 is silent, 0x01 0x01 is not.
C23_Witness ==
    /\ Estimated
    /\ call.fmt.bits_per_sample = 8 /\ call.fmt.block_align = 2
    /\ call.data = <<128, 1, 1, 1>>
    /\ ret = Ok([num |-> 1, den |-> 2])

\* C24: in each of the three branches the bytes after the last whole unit or
\* frame are counted neither as silent nor in the total, and the result is
\* 1.0 when the data holds no whole unit (the empty payload included).
C24_PartialUnits ==
    Estimated =>
        LET w == IF IsPcm16(call.fmt) THEN 2
                 ELSE IF IsFloat32(call.fmt) THEN 4
                 ELSE NatMax(call.fmt.block_align, 1)
            total == Len(call.data) \div w
            silent == IF IsPcm16(call.fmt) \/ IsFloat32(call.fmt)
                      THEN SilentUnits(call.units)
                      ELSE SilentFrames(call.data, w)
        IN IF total = 0 THEN ret = Ok([num |-> 1, den |-> 1])
           ELSE IsRatio(ret, silent, total)

\* One frame of 3 bytes that is not silent, then a single zero byte.
C24_Witness ==
    /\ Estimated
    /\ call.fmt.bits_per_sample = 8 /\ call.fmt.block_align = 3
    /\ call.data = <<1, 1, 1, 0>>
    /\ ret = Ok([num |-> 0, den |-> 1])

\* ------------------------------------------------------------------------
\* The dispatcher and the extension classifier
\* ------------------------------------------------------------------------
\* C25: with two or more fragments the output file gets the extension .wav
\* if and only if the dispatcher attempted try_merge_wav.
C25_WavExtensionIffWavMerger ==
    (AfterDispatch /\ Len(Fragments) >= 2) =>
        (ret.ext = ".wav" <=> (calls # <<>> /\ calls[1] = "try_merge_wav"))

\* ------------------------------------------------------------------------
\* try_merge_wav applied to its own output
\* ------------------------------------------------------------------------
\* C26: for every fragment sequence on which try_merge_wav succeeds,
\* parse_wav_fmt of the merged file returns the first fragment's descriptor
\* and declared fmt size, parse_wav_data returns the concatenated payloads,
\* and try_merge_wav of the merged file alone returns the merged file.
C26_Remergeable ==
    pc = "remerged" =>
        /\ ret.fmt = Ok([fmt |-> call[1].fmt, fmt_size |-> U32(call[1].fs)])
        /\ ret.data = Ok(ConcatData(call))
        /\ ret.again = Ok(ret.merged)

\* ------------------------------------------------------------------------
\* SpecWalk: parse_wav_fmt and parse_wav_data applied to byte strings made of
\* at most MaxWalkTokens tokens (chunk tags, length fields up to 2^32 - 1,
\* a single byte, 16 format bytes), after a RIFF/WAVE header or none.  The
\* iterations of the scan are recorded in calls: the offset of each, and the
\* byte ranges [lo, hi) it reads.  usize is 64 bits wide.
\* ------------------------------------------------------------------------
MaxWalkTokens == 3

WalkTokens ==
    { TagFmt, TagData, TagLIST, <<0, 0, 0, 0>>, <<1, 0, 0, 0>>, <<16, 0, 0, 0>>,
      <<248, 255, 255, 255>>, <<255, 255, 255, 255>>, <<7>>, FmtFields(BaseFmt) }

\* FmtWalk as it would be without the test of the chunk's end.
RECURSIVE FmtWalk_no_end_check(_, _)
FmtWalk_no_end_check(bytes, off) ==
    IF ~ (off + 8 <= Len(bytes)) THEN <<>>
    ELSE LET id == Slice(bytes, off, off + 4)
             sz == u32_from_le_bytes(Slice(bytes, off + 4, off + 8))
             chunk_data_start == off + 8
             header == <<off, off + 8>>
         IN IF id = TagFmt
            THEN IF U32Lt(sz, 16) THEN <<[off |-> off, reads |-> {header}, hit |-> FALSE]>>
                 ELSE <<[off |-> off, reads |-> {header, <<chunk_data_start, chunk_data_start + 16>>}, hit |-> TRUE]>>
            ELSE <<[off |-> off, reads |-> {header}, hit |-> FALSE]>>
                 \o FmtWalk_no_end_check(bytes, chunk_data_start + sz[1] + (sz[1] % 2))

\* The iterations of the loop of parse_wav_fmt from offset off on.
RECURSIVE FmtWalk(_, _)
FmtWalk(bytes, off) ==
    IF ~ (off + 8 <= Len(bytes)) THEN <<>>
    ELSE LET id == Slice(bytes, off, off + 4)
             sz == u32_from_le_bytes(Slice(bytes, off + 4, off + 8))
             chunk_data_start == off + 8
             header == <<off, off + 8>>
         IN IF ChunkEndExceeds(chunk_data_start, sz, Len(bytes))
            THEN <<[off |-> off, reads |-> {header}, hit |-> FALSE]>>
            ELSE IF id = TagFmt
            THEN IF U32Lt(sz, 16) THEN <<[off |-> off, reads |-> {header}, hit |-> FALSE]>>
                 ELSE <<[off |-> off, reads |-> {header, <<chunk_data_start, chunk_data_start + 16>>}, hit |-> TRUE]>>
            ELSE <<[off |-> off, reads |-> {header}, hit |-> FALSE]>>
                 \o FmtWalk(bytes, chunk_data_start + sz[1] + (sz[1] % 2))

\* The iterations of the loop of parse_wav_data from offset off on.
RECURSIVE DataWalk(_, _)
DataWalk(bytes, off) ==
    IF ~ (off + 8 <= Len(bytes)) THEN <<>>
    ELSE LET id == Slice(bytes, off, off + 4)
             sz == u32_from_le_bytes(Slice(bytes, off + 4, off + 8))
             chunk_data_start == off + 8
             header == <<off, off + 8>>
         IN IF ChunkEndExceeds(chunk_data_start, sz, Len(bytes))
            THEN <<[off |-> off, reads |-> {header}, hit |-> FALSE]>>
            ELSE IF id = TagData
            THEN <<[off |-> off, reads |-> {header, <<chunk_data_start, chunk_data_start + sz[1]>>}, hit |-> TRUE]>>
            ELSE <<[off |-> off, reads |-> {header}, hit |-> FALSE]>>
                 \o DataWalk(bytes, chunk_data_start + sz[1] + (sz[1] % 2))

InitWalk ==
    /\ pc = "build"
    /\ parts \in { <<Riff(<<>>)>>, <<<<>>>> }
    /\ call = <<>>
    /\ ret = None
    /\ warnings = <<>>
    /\ calls = <<>>
    /\ file = None

WalkPush ==
    /\ pc = "build"
    /\ Len(call) < MaxWalkTokens
    /\ \E t \in WalkTokens :
         /\ call' = Append(call, t)
         /\ parts' = <<parts[1] \o t>>
    /\ UNCHANGED <<pc, ret, warnings, calls, file>>

WalkFmt ==
    /\ pc = "build"
    /\ ret' = parse_wav_fmt(parts[1])
    /\ calls' = IF ValidOuterHeader(parts[1]) THEN FmtWalk(parts[1], 12) ELSE <<>>
    /\ pc' = "fmt_walked"
    /\ UNCHANGED <<parts, call, warnings, file>>

WalkData ==
    /\ pc = "build"
    /\ ret' = parse_wav_data(parts[1])
    /\ calls' = IF ValidOuterHeader(parts[1]) THEN DataWalk(parts[1], 12) ELSE <<>>
    /\ pc' = "data_walked"
    /\ UNCHANGED <<parts, call, warnings, file>>

NextWalk == WalkPush \/ WalkFmt \/ WalkData

SpecWalk == InitWalk /\ [][NextWalk]_vars

\* C27: parse_wav_fmt and parse_wav_data return a result or an error on
\* every input; the scan offset strictly increases from one iteration to the
\* next (so there are at most len / 8 iterations), and every byte range
\* read (chunk tag and length field, fmt fields, data slice) lies inside the
\* buffer; a value is returned exactly when the last iteration found the
\* wanted chunk.
C27_ScanSafe ==
    pc \in {"fmt_walked", "data_walked"} =>
        /\ ret.kind \in {"Ok", "Err"}
        /\ \A i \in 1..(Len(calls) - 1) : calls[i + 1].off > calls[i].off
        /\ Len(calls) * 8 <= Len(parts[1])
        /\ \A i \in 1..Len(calls) : \A r \in calls[i].reads :
             0 <= r[1] /\ r[1] <= r[2] /\ r[2] <= Len(parts[1])
        /\ IsOk(ret) <=> (calls # <<>> /\ calls[Len(calls)].hit)

\* A chunk declaring 2^32 - 1 bytes, then the tag of a fmt chunk.
C27_Witness ==
    /\ pc = "fmt_walked"
    /\ Len(parts[1]) > 12
    /\ call = <<TagLIST, <<255, 255, 255, 255>>, TagFmt>>
    /\ Len(calls) = 1
    /\ ret = Err("fmt chunk not found")

\* ------------------------------------------------------------------------
\* tts.rs: post_json_with_retries, should_retry, compute_backoff
\* ------------------------------------------------------------------------
max_retries == 6

\* should_retry as it would be retrying on every 5xx status.
should_retry_every_5xx(status) == status \in {408, 429} \/ status >= 500

should_retry(status) == status \in {429, 408, 500, 502, 503, 504}

\* The wait in milliseconds.  retry_after: the seconds of a Retry-After
\* header that parses as u64, -1 for no such header.
compute_backoff(attempt, retry_after) ==
    IF retry_after >= 0 THEN NatMax(retry_after, 1) * 1000
    ELSE LET shl == 2 ^ attempt
             base_secs == IF shl <= 60 THEN shl ELSE 60
             jitter_ms == ((attempt + 1) * 137) % 500
         IN base_secs * 1000 + jitter_ms

\* What one request may come back with: a success status with a body that
\* is JSON or is not, another status with or without Retry-After, an error
\* of the transport.
HttpResponses ==
    [kind : {"Success"}, json : BOOLEAN]
    \cup [kind : {"Status"}, status : {400, 401, 404, 408, 429, 500, 501, 502, 503, 504},
          retry_after : {-1, 0, 5}]
    \cup {[kind |-> "NetworkError"]}

\* ------------------------------------------------------------------------
\* SpecRetry: one call of post_json_with_retries.  call is [attempt, last]:
\* the counter and the response of the last request; calls holds one entry
\* per request sent, warnings the wait of each retry announced, ret the
\* result.  The sleep ends (weak fairness).
\* ------------------------------------------------------------------------
InitRetry ==
    /\ pc = "send"
    /\ call = [attempt |-> 0, last |-> None]
    /\ parts = <<>>
    /\ ret = None
    /\ warnings = <<>>
    /\ calls = <<>>
    /\ file = None

\* One iteration of the loop up to its return or its sleep.
RetrySend ==
    /\ pc = "send"
    /\ \E resp \in HttpResponses :
         /\ calls' = Append(calls, "post")
         /\ call' = [call EXCEPT !.last = resp]
         /\ IF resp.kind = "Success"
            THEN /\ ret' = IF resp.json THEN Ok("json") ELSE Err("error decoding response body")
                 /\ pc' = "returned"
                 /\ warnings' = warnings
            ELSE IF resp.kind = "Status"
            THEN IF should_retry(resp.status) /\ call.attempt < max_retries
                 THEN /\ warnings' = Append(warnings, compute_backoff(call.attempt, resp.retry_after))
                      /\ pc' = "sleep"
                      /\ ret' = ret
                 ELSE /\ ret' = Err("request failed")
                      /\ pc' = "returned"
                      /\ warnings' = warnings
            ELSE IF call.attempt < max_retries
                 THEN /\ warnings' = Append(warnings, compute_backoff(call.attempt, -1))
                      /\ pc' = "sleep"
                      /\ ret' = ret
                 ELSE /\ ret' = Err("request network error after retries")
                      /\ pc' = "returned"
                      /\ warnings' = warnings
    /\ UNCHANGED <<parts, file>>

\* sleep(wait).await; attempt += 1; continue
RetrySleep ==
    /\ pc = "sleep"
    /\ call' = [call EXCEPT !.attempt = @ + 1]
    /\ pc' = "send"
    /\ UNCHANGED <<parts, ret, warnings, calls, file>>

NextRetry == RetrySend \/ RetrySleep

SpecRetry == InitRetry /\ [][NextRetry]_vars /\ WF_vars(NextRetry)

RetriedStatuses == {408, 429, 500, 502, 503, 504}

RetryInv ==
    /\ Len(calls) <= 7
    /\ Len(calls) <= 1 + Len(warnings)
    /\ Len(warnings) <= 6
    /\ pc = "sleep" =>
          \/ call.last.kind = "NetworkError"
          \/ call.last.kind = "Status" /\ call.last.status \in RetriedStatuses
    /\ (pc # "send" /\ call.last.kind = "Success") =>
          pc = "returned" /\ (ret.kind = "Ok" <=> call.last.json)
    /\ (pc # "send" /\ call.last.kind = "Status" /\ call.last.status \notin RetriedStatuses) =>
          pc = "returned" /\ ret.kind = "Err"
    /\ pc = "returned" => ret.kind \in {"Ok", "Err"}

\* C28: post_json_with_retries sends at most 7 requests (one and at most 6
\* retries) and then returns a value or an error; it retries only after a
\* network error or a status in {408, 429, 500, 502, 503, 504}, returns on
\* the first success, and fails without a further request on any other
\* status.
C28_BoundedRetries == [] RetryInv /\ <>(pc = "returned")

\* Seven requests, each answered 503, the last one not retried.
C28_Witness ==
    /\ pc = "returned"
    /\ Len(calls) = 7
    /\ call.attempt = 6
    /\ call.last.kind = "Status" /\ call.last.status = 503
    /\ ret = Err("request failed")

\* ------------------------------------------------------------------------
\* markdown.rs: split_into_chunks_by_paragraph.  A text is the sequence of
\* its characters; chars[i] of the code is chars[i + 1] here.
\* ------------------------------------------------------------------------
\* while j < end && chars[j] == '\n' { j += 1 }
RECURSIVE NewlineRunEnd(_, _, _)
NewlineRunEnd(chars, j, end) ==
    IF j < end /\ chars[j + 1] = "\n" THEN NewlineRunEnd(chars, j + 1, end) ELSE j

\* LastParaBreak as it would be keeping the last newline of each run.
RECURSIVE LastParaBreak_run_end(_, _, _, _)
LastParaBreak_run_end(chars, i, end, last_para_break) ==
    IF ~ (i < end) THEN last_para_break
    ELSE IF chars[i + 1] = "\n"
    THEN LET j == NewlineRunEnd(chars, i + 1, end)
         IN LastParaBreak_run_end(chars, j, end, [kind |-> "Some", val |-> j - 1])
    ELSE LastParaBreak_run_end(chars, i + 1, end, last_para_break)

\* The loop over i in start..end: the first newline of the last run.
RECURSIVE LastParaBreak(_, _, _, _)
LastParaBreak(chars, i, end, last_para_break) ==
    IF ~ (i < end) THEN last_para_break
    ELSE IF chars[i + 1] = "\n"
    THEN LET j == NewlineRunEnd(chars, i + 1, end)
         IN LastParaBreak(chars, j, end, [kind |-> "Some", val |-> i])
    ELSE LastParaBreak(chars, i + 1, end, last_para_break)

\* for k in start..end: the last '.', '!' or '?'.
RECURSIVE LastSentenceEnd(_, _, _, _)
LastSentenceEnd(chars, k, end, last_sentence_end) ==
    IF ~ (k < end) THEN last_sentence_end
    ELSE LastSentenceEnd(chars, k + 1, end,
                         IF chars[k + 1] \in {".", "!", "?"}
                         THEN [kind |-> "Some", val |-> k] ELSE last_sentence_end)

RECURSIVE SplitLoop(_, _, _, _)
SplitLoop(chars, start, max_chars, chunks) ==
    LET total == Len(chars)
    IN IF ~ (start < total) THEN chunks
       ELSE LET remaining == total - start
                take == IF remaining <= max_chars THEN remaining ELSE max_chars
                end0 == start + take
                bp == LastParaBreak(chars, start, end0, None)
                se == LastSentenceEnd(chars, start, end0, None)
                end == IF ~ (end0 < total) THEN end0
                       ELSE IF bp.kind = "Some" THEN bp.val + 1
                       ELSE IF se.kind = "Some" THEN se.val + 1
                       ELSE end0
            IN SplitLoop(chars, end, max_chars, Append(chunks, Slice(chars, start, end)))

split_into_chunks_by_paragraph(input, max_chars) ==
    IF Len(input) <= max_chars THEN <<input>>
    ELSE SplitLoop(input, 0, max_chars, <<>>)

\* ------------------------------------------------------------------------
\* SpecSplit: split_into_chunks_by_paragraph applied to every text of at most
\* MaxTextLen characters among a letter, a newline, '.' and '?', and every
\* max_chars in 1..MaxChars.
\* ------------------------------------------------------------------------
MaxTextLen == 5

MaxChars == 3

TextChars == {"a", "\n", ".", "?"}

SplitInputs == [input : SeqsUpTo(TextChars, MaxTextLen), max_chars : 1..MaxChars]

InitSplit ==
    /\ pc = "start"
    /\ call \in SplitInputs
    /\ parts = <<>>
    /\ ret = None
    /\ warnings = <<>>
    /\ calls = <<>>
    /\ file = None

SplitCall ==
    /\ pc = "start"
    /\ ret' = split_into_chunks_by_paragraph(call.input, call.max_chars)
    /\ pc' = "split"
    /\ UNCHANGED <<call, parts, warnings, calls, file>>

NextSplit == SplitCall

SpecSplit == InitSplit /\ [][NextSplit]_vars

\* Where chunk i of cs starts in the text.
RECURSIVE ChunkStart(_, _)
ChunkStart(cs, i) == IF i = 1 THEN 0 ELSE ChunkStart(cs, i - 1) + Len(cs[i - 1])

\* The positions (from 0) in the window [s, e) of the text t that hold the
\* first newline of a newline run of the window.
RunStarts(t, s, e) ==
    {p \in s..(e - 1) : t[p + 1] = "\n" /\ (p = s \/ t[p] # "\n")}

SentenceEnds(t, s, e) == {p \in s..(e - 1) : t[p + 1] \in {".", "!", "?"}}

Greatest(S) == CHOOSE p \in S : \A q \in S : q <= p

Backtick == "backtick"

RECURSIVE trim_start(_)
trim_start(line) ==
    IF line # <<>> /\ Head(line) = " " THEN trim_start(Tail(line)) ELSE line

starts_with(s, prefix) ==
    Len(s) >= Len(prefix) /\ SubSeq(s, 1, Len(prefix)) = prefix

is_fence_open(line) == starts_with(trim_start(line), <<Backtick, Backtick, Backtick>>)

is_fence_close(line) == starts_with(trim_start(line), <<Backtick, Backtick, Backtick>>)

\* code_acc.join("\n")
RECURSIVE Join(_)
Join(ls) ==
    IF ls = <<>> THEN <<>>
    ELSE IF Len(ls) = 1 THEN ls[1]
    ELSE ls[1] \o <<"\n">> \o Join(Tail(ls))

\* .unwrap_or_else(|e| format!("[summary failed: {e}]"))
SummaryOrFailure(r) ==
    IF r.kind = "Ok" THEN r.val
    ELSE <<"[", "s", "u", "m", "m", "a", "r", "y", " ", "f", "a", "i", "l", "e", "d", ":", " ">> \o r.msg \o <<"]">>

\* The locals before the loop.
ReplaceLocals(input) ==
    [lines |-> input, out |-> <<>>, in_block |-> FALSE, code_acc |-> <<>>,
     count_blocks |-> 0]

\* One iteration of while let Some(line) = lines.next(); r is what
\* summarize_code_block returns when the iteration calls it.
ReplaceLine(st, r) ==
    LET line == Head(st.lines)
        rest == [st EXCEPT !.lines = Tail(@)]
    IN IF ~ st.in_block
       THEN IF is_fence_open(line)
            THEN [rest EXCEPT !.in_block = TRUE, !.out = Append(@, line),
                              !.code_acc = <<>>]
            ELSE [rest EXCEPT !.out = Append(@, line)]
       ELSE IF is_fence_close(line)
       THEN [rest EXCEPT !.count_blocks = @ + 1,
                         !.out = @ \o <<SummaryOrFailure(r), line>>,
                         !.in_block = FALSE, !.code_acc = <<>>]
       ELSE [rest EXCEPT !.code_acc = Append(@, line)]

\* ReplaceAtEof as it would be leaving a fence open at the end uncounted.
ReplaceAtEof_uncounted(st, r) ==
    IF st.in_block
    THEN [st EXCEPT !.count_blocks = @ + 0,
                    !.out = Append(@, SummaryOrFailure(r))]
    ELSE st

\* if in_block { .. } after the loop.
ReplaceAtEof(st, r) ==
    IF st.in_block
    THEN [st EXCEPT !.count_blocks = @ + 1,
                    !.out = Append(@, SummaryOrFailure(r))]
    ELSE st

\* ------------------------------------------------------------------------
\* SpecReplace: replace_code_blocks_with_summaries line by line over every
\* input of at most MaxLines lines; each call of the summarizer returns a
\* summary or fails.  calls records the code text of each summarizer call
\* and what the call returned.
\* ------------------------------------------------------------------------
MaxLines == 4

InputLines ==
    {<<"a">>, <<"b">>, <<Backtick, Backtick, Backtick>>, <<" ", Backtick, Backtick, Backtick, "r">>,
     <<"a", Backtick, Backtick, Backtick>>, <<Backtick, Backtick>>}

SummaryResults == {Ok(<<"s">>), Err(<<"e">>)}

InitReplace ==
    /\ pc = "build"
    /\ call = <<>>
    /\ parts = <<>>
    /\ ret = None
    /\ warnings = <<>>
    /\ calls = <<>>
    /\ file = None

LinePush ==
    /\ pc = "build"
    /\ Len(call) < MaxLines
    /\ \E line \in InputLines : call' = Append(call, line)
    /\ UNCHANGED <<pc, parts, ret, warnings, calls, file>>

ReplaceStart ==
    /\ pc = "build"
    /\ ret' = ReplaceLocals(call)
    /\ pc' = "loop"
    /\ UNCHANGED <<call, parts, warnings, calls, file>>

ReplaceStep ==
    /\ pc = "loop"
    /\ ret.lines # <<>>
    /\ IF ret.in_block /\ is_fence_close(Head(ret.lines))
       THEN \E r \in SummaryResults :
                /\ ret' = ReplaceLine(ret, r)
                /\ calls' = Append(calls, [code |-> Join(ret.code_acc), result |-> r])
       ELSE /\ ret' = ReplaceLine(ret, None)
            /\ calls' = calls
    /\ UNCHANGED <<pc, call, parts, warnings, file>>

ReplaceEof ==
    /\ pc = "loop"
    /\ ret.lines = <<>>
    /\ IF ret.in_block
       THEN \E r \in SummaryResults :
                /\ ret' = Ok(ReplaceAtEof(ret, r))
                /\ calls' = Append(calls, [code |-> Join(ret.code_acc), result |-> r])
       ELSE /\ ret' = Ok(ReplaceAtEof(ret, None))
            /\ calls' = calls
    /\ pc' = "replaced"
    /\ UNCHANGED <<call, parts, warnings, file>>

NextReplace == LinePush \/ ReplaceStart \/ ReplaceStep \/ ReplaceEof

SpecReplace == InitReplace /\ [][NextReplace]_vars

\* The fence lines among the first n lines of the input.
FencesBefore(n) == {i \in 1..n : is_fence_open(call[i])}

\* Line i opens a fence, closes one, or lies inside one: by the number of
\* fence lines before it.
OpensFence(i) == i \in FencesBefore(i) /\ Cardinality(FencesBefore(i - 1)) % 2 = 0

ClosesFence(i) == i \in FencesBefore(i) /\ Cardinality(FencesBefore(i - 1)) % 2 = 1

InsideFence(i) == i \notin FencesBefore(i) /\ Cardinality(FencesBefore(i - 1)) % 2 = 1

\* The text that stands for summarizer call k.
SummaryText(k) ==
    IF calls[k].result.kind = "Ok" THEN calls[k].result.val
    ELSE <<"[", "s", "u", "m", "m", "a", "r", "y", " ", "f", "a", "i", "l", "e", "d", ":", " ">> \o calls[k].result.msg \o <<"]">>

\* What the first n lines put on the output: lines outside a fence and
\* fence lines as they are, nothing for a line inside a fence, and before
\* each closing fence the summary of the fence it closes.
RECURSIVE OutputOf(_)
OutputOf(n) ==
    IF n = 0 THEN <<>>
    ELSE OutputOf(n - 1) \o
         (IF InsideFence(n) THEN <<>>
          ELSE IF ClosesFence(n)
          THEN <<SummaryText(Cardinality(FencesBefore(n)) \div 2), call[n]>>
          ELSE <<call[n]>>)

FencesOpened == Cardinality({i \in 1..Len(call) : OpensFence(i)})

\* C30: while the lines are scanned the function is inside a fence exactly
\* after an odd number of fence lines, and the output holds, in order, the
\* lines read outside a fence and the fence lines, with one summary (the
\* summarizer's text, or '[summary failed: ...]' when it failed) before
\* each closing fence and no line read inside a fence; the function
\* returns Ok with the count equal to the number of fences opened, one
\* summarizer call per fence, a fence left open at the end of the input
\* having its summary at the end of the output.
C30_FenceMachine ==
    /\ pc = "loop" =>
         LET n == Len(call) - Len(ret.lines)
         IN /\ ret.in_block = (Cardinality(FencesBefore(n)) % 2 = 1)
            /\ ret.out = OutputOf(n)
            /\ ret.count_blocks = Cardinality(FencesBefore(n)) \div 2
            /\ Len(calls) = ret.count_blocks
    /\ pc = "replaced" =>
         /\ ret.kind = "Ok"
         /\ ret.val.count_blocks = FencesOpened
         /\ Len(calls) = FencesOpened
         /\ ret.val.out =
              OutputOf(Len(call)) \o
              (IF Cardinality(FencesBefore(Len(call))) % 2 = 1
               THEN <<SummaryText(FencesOpened)>> ELSE <<>>)

\* A closed fence whose summary failed, then a fence left open at the end.
C30_Witness ==
    /\ pc = "replaced"
    /\ call = <<<<Backtick, Backtick, Backtick>>, <<"a">>, <<" ", Backtick, Backtick, Backtick, "r">>, <<Backtick, Backtick, Backtick>>>>
    /\ calls[1].result.kind = "Err"
    /\ calls[2].result.kind = "Ok"
    /\ ret.val.count_blocks = 2
    /\ ret.val.out = <<call[1], SummaryOrFailure(Err(<<"e">>)), call[3], call[4], <<"s">>>>

====
